---- MODULE Spec2Model ----
(***************************************************************************)
(* Model of the Aeron Archive C++ client: the control session protocol     *)
(* (ArchiveProxy offers, ControlResponsePoller, synchronous waits of       *)
(* AeronArchive), the two descriptor pollers with the bounded listing      *)
(* loops, the recording events listener and the ReplayMerge state machine. *)
(* The response subscription is a sequence of whole messages; the archive  *)
(* server, the clock and the connectivity of the subscription are the      *)
(* environment.                                                            *)
(***************************************************************************)
EXTENDS Integers, Sequences, FiniteSets, TLC

VARIABLES
    stream,            \* messages on the response subscription, not yet consumed
    connected,         \* Subscription::isConnected of the response subscription
    now,               \* high_resolution_clock::now(), in ticks
    nextCorrelationId, \* Aeron::nextCorrelationId counter
    serverSent,        \* number of messages the environment has published
    poller,            \* ControlResponsePoller fields
    polled,            \* the messages consumed by the most recent poll()
    call,              \* the AeronArchive call in progress (one thread)
    sent,              \* requests accepted by the request publication
    hasErrorHandler,   \* Context::errorHandler() is installed
    handlerLog,        \* exceptions delivered to m_errorHandler
    unrelatedErrors,   \* ERROR responses of this session consumed while awaiting another id
    lastCheck,         \* the most recent checkForErrorResponse
    descriptorPoller,  \* RecordingDescriptorPoller fields
    subscriptionDescriptorPoller, \* RecordingSubscriptionDescriptorPoller fields
    consumerLog,       \* descriptors given to the consumer of the listing in progress
    received           \* messages the descriptor poller consumed during that listing

\* The variables of the descriptor pollers and their listings.
listVars == <<descriptorPoller, subscriptionDescriptorPoller, consumerLog, received>>

\* One poll of one poller, fragment by fragment.
VARIABLES
    polling,        \* the poller whose poll() is delivering fragments, or "none"
    fragment,       \* the latest onFragment call: its message and what it did
    eventLog        \* the recording events given to onStart, onProgress, onStop

pollVars == <<polling, fragment, eventLog>>

\* ReplayMerge over the archive client.
VARIABLES
    rm,             \* the members of ReplayMerge
    destinations,   \* the destinations of the merge subscription
    imagePosition,  \* position of the replay image, once there is one
    inFlight,       \* correlation ids of requests sent and not yet answered
    answered,       \* correlation ids whose response the poller has consumed
    served,         \* correlation ids the archive has responded to
    liveCalls       \* how often addDestination(m_liveDestination) has been called

mergeVars == <<rm, destinations, imagePosition, inFlight, answered, served, liveCalls>>

\* What the operations of the archive client itself leave alone.
elsewhere == <<pollVars, mergeVars>>

\* The end of a ReplayMerge.
VARIABLES
    destroyed       \* what ~ReplayMerge found and did, once it has run

\* One operation of ArchiveProxy, attempt by attempt.
VARIABLES
    proxy,          \* the operation in progress: its flavour, locals and history
    hrClock         \* std::chrono::high_resolution_clock

offerVars == <<proxy, hrClock>>

\* An AsyncConnect on its way to a new session.
VARIABLES
    ac,             \* the members of AsyncConnect
    driver,         \* what Aeron knows of its subscription and publication
    acStream,       \* messages on the response stream, not yet polled
    acLog,          \* the latest poll() and what the polls have done so far
    archive         \* what makeArchive() has returned, once called

connectVars == <<ac, driver, acStream, acLog, archive>>

\* Threads on one AeronArchive.
VARIABLES
    mutex,          \* m_mutex: "free" or the thread that holds it
    th,             \* where each thread is in its call, and the call's locals
    buffer,         \* the request the scratch buffer of the proxy holds
    replied         \* how many of the requests sent the archive has answered

threadVars == <<mutex, th, buffer, replied>>

\* Further operations of the client on the connected session.
VARIABLES
    pollLog,        \* the latest ControlResponsePoller::poll(): the poller before it and what it read
    closeLog        \* what ~AeronArchive did, once it has run

\* Recorded publications.
VARIABLES
    aeronPub,       \* the publication Aeron has been asked for, once it is registered
    rec,            \* addRecordedPublication in progress: its arguments and where it is
    stopLog         \* the latest stopRecording: its form, its arguments and its outcome

recordVars == <<aeronPub, rec, stopLog>>

\* Looking for an error outside any request.
VARIABLES
    errLog          \* the latest pollForErrorResponse: what it polled and returned

\* The transport under an exclusive publication that reaches its max position.
VARIABLES
    test,           \* the locals of the system test and where it is
    pubs,           \* the exclusive publications: position, limit and what they published
    sub             \* the subscription: fragments consumed per publication, values received

transportVars == <<test, pubs, sub>>

\* The recording position counters of the counters registry.
VARIABLES
    counters,       \* the metadata records of the registry; counter id i is counters[i + 1]
    lookup          \* the latest call of a RecordingPos function on the registry as it is

counterVars == <<counters, lookup>>

\* FragmentAssembler.
VARIABLES
    fa,             \* the assembler: its builders by session id, and what the poll redelivers
    faLog,          \* the latest onFragment: the frame, the delegate calls, the action
    runs            \* per session, the payload delivered since the BEGIN of the pending run

assemblerVars == <<fa, faLog, runs>>

clientVars ==
    <<pollLog, closeLog, recordVars, errLog, transportVars, counterVars, assemblerVars>>

\* What the operations of the client, the pollers and doWork leave alone.
furtherVars == <<destroyed, offerVars, connectVars, threadVars, clientVars>>

\* The connected session, its pollers and its ReplayMerge.
baseVars == <<stream, connected, now, nextCorrelationId, serverSent, poller, polled,
              call, sent, hasErrorHandler, handlerLog, unrelatedErrors, lastCheck,
              listVars, pollVars, mergeVars>>

vars == <<baseVars, furtherVars>>

(***************************************************************************)
(* Bounds of the model.                                                    *)
(***************************************************************************)
MaxMessages == 2
MaxCalls == 1
MaxClock == 3
MessageTimeout == 1
MaxRecordCount == 2
MaxMergeRequests == 6
MaxPosition == 2
MaxRetryAttempts == 3
MaxTimedAttempts == 4
MaxConnectTimeout == 1
MaxHrClock == 3
MaxConnectMessages == 2
MaxThreadRequests == 3
MaxIdles == 1
MaxRecordingCalls == 2
MaxBackPressure == 1
\* The number of metadata records of the counters registry.
NumCounters == 3
\* The longest payload a session's builder is made to hold.
MaxAssembled == 3

(***************************************************************************)
(* Program constants.                                                      *)
(***************************************************************************)
NULL_VALUE == -1
\* The system test, scaled down: message_size, msg_count_until_max_pos and the
\* max position of the first publication.
message_size == 1
msg_count_until_max_pos == 5
max_pos_mult_pow == 1
term_buf_len_pow == 2

get_max_position(pow) == 2 ^ (pow + max_pos_mult_pow)

max_position == get_max_position(term_buf_len_pow)

\* The signal values of Publication::offer the test looks at.
BACK_PRESSURED == -2
MAX_POSITION_EXCEEDED == -5
NULL_POSITION == NULL_VALUE
FRAGMENT_LIMIT == 10
DEFAULT_RETRY_ATTEMPTS == 3

\* MessageHeader::sbeSchemaId(): the schema id the codecs were generated for.
sbeSchemaId == "sbeSchemaId"
otherSchemaId == "otherSchemaId"

\* The control session id the AeronArchive was constructed with, and another one.
ControlSessionId == 7
OtherSessionId == ControlSessionId + 1

\* m_templateId after the reset of poll(): no template.
NoTemplateId == "NULL_VALUE"

\* Results of ExclusivePublication::offer: a new position or a signal value.
PublicationResults ==
    {"POSITION", "BACK_PRESSURED", "NOT_CONNECTED", "ADMIN_ACTION",
     "PUBLICATION_CLOSED", "MAX_POSITION_EXCEEDED"}

(***************************************************************************)
(* Messages of the response stream: the SBE header and the body fields.    *)
(***************************************************************************)
Msg(schema, template, session, corr, rel, code, err, body) ==
    [schemaId |-> schema, templateId |-> template, controlSessionId |-> session,
     correlationId |-> corr, relevantId |-> rel, code |-> code,
     errorMessage |-> err, body |-> body]

ControlResponse(session, corr, rel, code) ==
    Msg(sbeSchemaId, "ControlResponse", session, corr, rel, code,
        IF code = "ERROR" THEN "boom" ELSE "", 0)

NoException == [type |-> "none", what |-> <<>>, errorCode |-> NULL_VALUE]

ArchiveException(what, errorCode) ==
    [type |-> "ArchiveException", what |-> what, errorCode |-> errorCode]

\* ArchiveException::ErrorCode::GENERIC, the code of the two-argument constructor.
GENERIC == 0

TimeoutException(what) ==
    [type |-> "TimeoutException", what |-> what, errorCode |-> NULL_VALUE]

SchemaException(schemaId) ==
    ArchiveException(<<"expected schemaId=", sbeSchemaId, ", actual=", schemaId>>, GENERIC)

(***************************************************************************)
(* ControlResponsePoller                                                   *)
(***************************************************************************)
isControlResponse(p) == p.templateId = "ControlResponse"

isCodeOk(p) == p.code = "OK"

isCodeError(p) == p.code = "ERROR"

\* A poll() that leaves m_relevantId as it was.
ControlResponsePoller_reset_KeepsRelevantId(p) ==
    [p EXCEPT !.controlSessionId = -1, !.correlationId = -1,
              !.templateId = NoTemplateId, !.errorMessage = "", !.pollComplete = FALSE]

\* The fields poll() resets before reading; m_code is not among them.
ControlResponsePoller_reset(p) ==
    [p EXCEPT !.controlSessionId = -1, !.correlationId = -1, !.relevantId = -1,
              !.templateId = NoTemplateId, !.errorMessage = "", !.pollComplete = FALSE]

\* onFragment noting the template id before it looks at the schema id.
ControlResponsePoller_LateSchemaCheck(p, msg) ==
    IF p.pollComplete
    THEN [poller |-> p, action |-> "ABORT"]
    ELSE LET p1 == [p EXCEPT !.templateId = msg.templateId] IN
         IF msg.schemaId # sbeSchemaId
         THEN [poller |-> p1, action |-> "THROW"]
         ELSE IF isControlResponse(p1)
         THEN [poller |-> [p1 EXCEPT !.controlSessionId = msg.controlSessionId,
                                     !.correlationId = msg.correlationId,
                                     !.relevantId = msg.relevantId,
                                     !.code = msg.code,
                                     !.errorMessage = msg.errorMessage,
                                     !.pollComplete = TRUE],
               action |-> "BREAK"]
         ELSE [poller |-> p1, action |-> "CONTINUE"]

\* onFragment reading on after a ControlResponse.
ControlResponsePoller_onFragment_ReadsOn(p, msg) ==
    IF msg.schemaId # sbeSchemaId
    THEN [poller |-> p, action |-> "THROW"]
    ELSE LET p1 == [p EXCEPT !.templateId = msg.templateId] IN
         IF isControlResponse(p1)
         THEN [poller |-> [p1 EXCEPT !.controlSessionId = msg.controlSessionId,
                                     !.correlationId = msg.correlationId,
                                     !.relevantId = msg.relevantId,
                                     !.code = msg.code,
                                     !.errorMessage = msg.errorMessage,
                                     !.pollComplete = TRUE],
               action |-> "CONTINUE"]
         ELSE [poller |-> p1, action |-> "CONTINUE"]

\* One fragment: the poller after it and the ControlledPollAction, or THROW.
ControlResponsePoller_onFragment(p, msg) ==
    IF p.pollComplete
    THEN [poller |-> p, action |-> "ABORT"]
    ELSE IF msg.schemaId # sbeSchemaId
    THEN [poller |-> p, action |-> "THROW"]
    ELSE LET p1 == [p EXCEPT !.templateId = msg.templateId] IN
         IF isControlResponse(p1)
         THEN [poller |-> [p1 EXCEPT !.controlSessionId = msg.controlSessionId,
                                     !.correlationId = msg.correlationId,
                                     !.relevantId = msg.relevantId,
                                     !.code = msg.code,
                                     !.errorMessage = msg.errorMessage,
                                     !.pollComplete = TRUE],
               action |-> "BREAK"]
         ELSE [poller |-> p1, action |-> "CONTINUE"]

\* Subscription::controlledPoll driving onFragment over the messages s: a BREAK
\* consumes its fragment and ends the poll, an ABORT leaves its fragment, an
\* exception of the handler leaves controlledPoll with the fragment consumed.
RECURSIVE ControlResponsePoller_controlledPoll(_, _, _, _)
ControlResponsePoller_controlledPoll(p, s, fragmentsRead, consumed) ==
    IF s = <<>> \/ fragmentsRead >= FRAGMENT_LIMIT
    THEN [poller |-> p, rest |-> s, fragments |-> fragmentsRead,
          consumed |-> consumed, exception |-> NoException]
    ELSE LET r == ControlResponsePoller_onFragment(p, Head(s)) IN
         CASE r.action = "THROW" ->
                [poller |-> r.poller, rest |-> Tail(s), fragments |-> fragmentsRead,
                 consumed |-> Append(consumed, Head(s)),
                 exception |-> SchemaException(Head(s).schemaId)]
           [] r.action = "ABORT" ->
                [poller |-> r.poller, rest |-> s, fragments |-> fragmentsRead,
                 consumed |-> consumed, exception |-> NoException]
           [] r.action = "BREAK" ->
                [poller |-> r.poller, rest |-> Tail(s), fragments |-> fragmentsRead + 1,
                 consumed |-> Append(consumed, Head(s)), exception |-> NoException]
           [] OTHER ->
                ControlResponsePoller_controlledPoll(
                    r.poller, Tail(s), fragmentsRead + 1, Append(consumed, Head(s)))

ControlResponsePoller_poll(p, s) ==
    ControlResponsePoller_controlledPoll(ControlResponsePoller_reset(p), s, 0, <<>>)

(***************************************************************************)
(* ArchiveProxy: the plain offer. results are the answers the publication  *)
(* gives to successive ExclusivePublication::offer calls.                  *)
(***************************************************************************)
\* handleResult of offer as empty as the one of offerWithTimeout.
offer_handleResult_NeverThrows(result) == FALSE

\* handleResult of ArchiveProxy::offer: TRUE when it throws.
ArchiveProxy_offer_handleResult(result) == result = "NOT_CONNECTED"

RECURSIVE ArchiveProxy_offerHelper(_, _, _)
ArchiveProxy_offerHelper(results, attempt, remainingAttempts) ==
    LET result == results[attempt] IN
    IF result = "POSITION"
    THEN [ret |-> "true", attempts |-> attempt, exception |-> NoException]
    ELSE IF result = "PUBLICATION_CLOSED"
    THEN [ret |-> "throw", attempts |-> attempt,
          exception |-> ArchiveException(<<"connection to the archive has been closed">>, GENERIC)]
    ELSE IF result = "MAX_POSITION_EXCEEDED"
    THEN [ret |-> "throw", attempts |-> attempt,
          exception |-> ArchiveException(<<"offer failed due to max position being reached">>, GENERIC)]
    ELSE IF ArchiveProxy_offer_handleResult(result)
    THEN [ret |-> "throw", attempts |-> attempt,
          exception |-> ArchiveException(<<"connection to the archive is no longer available">>, GENERIC)]
    ELSE IF remainingAttempts - 1 = 0
    THEN [ret |-> "false", attempts |-> attempt, exception |-> NoException]
    ELSE ArchiveProxy_offerHelper(results, attempt + 1, remainingAttempts - 1)

ArchiveProxy_offer(results) ==
    ArchiveProxy_offerHelper(results, 1, DEFAULT_RETRY_ATTEMPTS)

\* The answers a publication may give over the attempts of one offer: the offer
\* asks again only after BACK_PRESSURED or ADMIN_ACTION, and no more than
\* DEFAULT_RETRY_ATTEMPTS times.
OfferResults ==
    {results \in UNION {[1..n -> PublicationResults] : n \in 1..DEFAULT_RETRY_ATTEMPTS} :
        /\ \A i \in 1..(Len(results) - 1) : results[i] \in {"BACK_PRESSURED", "ADMIN_ACTION"}
        /\ Len(results) < DEFAULT_RETRY_ATTEMPTS =>
               results[Len(results)] \notin {"BACK_PRESSURED", "ADMIN_ACTION"}}

(***************************************************************************)
(* AeronArchive: the synchronous wait.                                     *)
(***************************************************************************)
\* Request/response operations that end in pollForResponse; extendRecording,
\* stopRecording, startReplay, startBoundedReplay, stopAllReplays, getStopPosition,
\* findLastMatchingRecording and truncateRecording have the same body.
SyncOps == {"startRecording", "stopReplay", "getRecordingPosition"}

Idle == [pc |-> "idle", op |-> "none", correlationId |-> NULL_VALUE,
         deadlineTs |-> 0, value |-> NULL_VALUE, exception |-> NoException,
         recordCount |-> 0, existingRemainCount |-> 0, startTs |-> 0,
         lastCallbackTs |-> 0, endTs |-> 0]

\* pollNextResponse giving up as soon as the clock reaches the deadline.
pollNextResponse_AtDeadline(correlationId, deadlineTs, r) ==
    IF r.exception # NoException
    THEN [next |-> "throw", exception |-> r.exception]
    ELSE IF r.poller.pollComplete
    THEN [next |-> "break", exception |-> NoException]
    ELSE IF r.fragments > 0
    THEN [next |-> "continue", exception |-> NoException]
    ELSE IF ~connected
    THEN [next |-> "throw",
          exception |-> ArchiveException(<<"subscription to archive is not connected">>, GENERIC)]
    ELSE IF now >= deadlineTs
    THEN [next |-> "throw",
          exception |-> TimeoutException(<<"awaiting response - correlationId=", correlationId>>)]
    ELSE [next |-> "continue", exception |-> NoException]

\* pollNextResponse never looking at the clock.
pollNextResponse_NoDeadline(correlationId, deadlineTs, r) ==
    IF r.exception # NoException
    THEN [next |-> "throw", exception |-> r.exception]
    ELSE IF r.poller.pollComplete
    THEN [next |-> "break", exception |-> NoException]
    ELSE IF r.fragments > 0
    THEN [next |-> "continue", exception |-> NoException]
    ELSE IF ~connected
    THEN [next |-> "throw",
          exception |-> ArchiveException(<<"subscription to archive is not connected">>, GENERIC)]
    ELSE [next |-> "continue", exception |-> NoException]

\* pollNextResponse looking at the clock before it looks at the subscription.
pollNextResponse_DeadlineFirst(correlationId, deadlineTs, r) ==
    IF r.exception # NoException
    THEN [next |-> "throw", exception |-> r.exception]
    ELSE IF r.poller.pollComplete
    THEN [next |-> "break", exception |-> NoException]
    ELSE IF r.fragments > 0
    THEN [next |-> "continue", exception |-> NoException]
    ELSE IF now > deadlineTs
    THEN [next |-> "throw",
          exception |-> TimeoutException(<<"awaiting response - correlationId=", correlationId>>)]
    ELSE IF ~connected
    THEN [next |-> "throw",
          exception |-> ArchiveException(<<"subscription to archive is not connected">>, GENERIC)]
    ELSE [next |-> "continue", exception |-> NoException]

\* One pass of the loop of pollNextResponse, r being the result of poller.poll().
pollNextResponse(correlationId, deadlineTs, r) ==
    IF r.exception # NoException
    THEN [next |-> "throw", exception |-> r.exception]
    ELSE IF r.poller.pollComplete
    THEN [next |-> "break", exception |-> NoException]
    ELSE IF r.fragments > 0
    THEN [next |-> "continue", exception |-> NoException]
    ELSE IF ~connected
    THEN [next |-> "throw",
          exception |-> ArchiveException(<<"subscription to archive is not connected">>, GENERIC)]
    ELSE IF now > deadlineTs
    THEN [next |-> "throw",
          exception |-> TimeoutException(<<"awaiting response - correlationId=", correlationId>>)]
    ELSE [next |-> "continue", exception |-> NoException]

\* pollForResponse taking the response of any correlation id of the session.
pollForResponse_AnyCorrelation(correlationId, p) ==
    LET ex == ArchiveException(
                  <<"response for correlationId=", correlationId, ", error: ", p.errorMessage>>,
                  p.relevantId)
        again == [next |-> "continue", value |-> NULL_VALUE,
                  exception |-> NoException, handled |-> NoException]
    IN
    IF p.controlSessionId # ControlSessionId \/ ~isControlResponse(p)
    THEN again
    ELSE IF isCodeError(p)
    THEN IF p.correlationId = correlationId
         THEN [again EXCEPT !.next = "throw", !.exception = ex]
         ELSE IF hasErrorHandler
         THEN [again EXCEPT !.handled = ex]
         ELSE again
    ELSE IF ~isCodeOk(p)
    THEN [again EXCEPT !.next = "throw",
                       !.exception = ArchiveException(<<"unexpected response code: ", p.code>>, GENERIC)]
    ELSE [again EXCEPT !.next = "return", !.value = p.relevantId]

\* pollForResponse raising the matching ERROR without the code the archive gave.
pollForResponse_GenericError(correlationId, p) ==
    LET ex == ArchiveException(
                  <<"response for correlationId=", correlationId, ", error: ", p.errorMessage>>,
                  p.relevantId)
        again == [next |-> "continue", value |-> NULL_VALUE,
                  exception |-> NoException, handled |-> NoException]
    IN
    IF p.controlSessionId # ControlSessionId \/ ~isControlResponse(p)
    THEN again
    ELSE IF isCodeError(p)
    THEN IF p.correlationId = correlationId
         THEN [again EXCEPT !.next = "throw", !.exception = [ex EXCEPT !.errorCode = GENERIC]]
         ELSE IF hasErrorHandler
         THEN [again EXCEPT !.handled = ex]
         ELSE again
    ELSE IF p.correlationId = correlationId
    THEN IF ~isCodeOk(p)
         THEN [again EXCEPT !.next = "throw",
                            !.exception = ArchiveException(<<"unexpected response code: ", p.code>>, GENERIC)]
         ELSE [again EXCEPT !.next = "return", !.value = p.relevantId]
    ELSE again

\* pollForResponse keeping the ERROR of another correlation id from the handler.
pollForResponse_HandlerSkipped(correlationId, p) ==
    LET ex == ArchiveException(
                  <<"response for correlationId=", correlationId, ", error: ", p.errorMessage>>,
                  p.relevantId)
        again == [next |-> "continue", value |-> NULL_VALUE,
                  exception |-> NoException, handled |-> NoException]
    IN
    IF p.controlSessionId # ControlSessionId \/ ~isControlResponse(p)
    THEN again
    ELSE IF isCodeError(p)
    THEN IF p.correlationId = correlationId
         THEN [again EXCEPT !.next = "throw", !.exception = ex]
         ELSE again
    ELSE IF p.correlationId = correlationId
    THEN IF ~isCodeOk(p)
         THEN [again EXCEPT !.next = "throw",
                            !.exception = ArchiveException(<<"unexpected response code: ", p.code>>, GENERIC)]
         ELSE [again EXCEPT !.next = "return", !.value = p.relevantId]
    ELSE again

\* The body of the loop of pollForResponse after pollNextResponse has returned
\* with a complete poll: return, throw, or go round again; handled is the
\* exception given to m_errorHandler, if any.
AeronArchive_pollForResponse(correlationId, p) ==
    LET ex == ArchiveException(
                  <<"response for correlationId=", correlationId, ", error: ", p.errorMessage>>,
                  p.relevantId)
        again == [next |-> "continue", value |-> NULL_VALUE,
                  exception |-> NoException, handled |-> NoException]
    IN
    IF p.controlSessionId # ControlSessionId \/ ~isControlResponse(p)
    THEN again
    ELSE IF isCodeError(p)
    THEN IF p.correlationId = correlationId
         THEN [again EXCEPT !.next = "throw", !.exception = ex]
         ELSE IF hasErrorHandler
         THEN [again EXCEPT !.handled = ex]
         ELSE again
    ELSE IF p.correlationId = correlationId
    THEN IF ~isCodeOk(p)
         THEN [again EXCEPT !.next = "throw",
                            !.exception = ArchiveException(<<"unexpected response code: ", p.code>>, GENERIC)]
         ELSE [again EXCEPT !.next = "return", !.value = p.relevantId]
    ELSE again

\* An ERROR response of this session for another correlation id than the awaited.
IsUnrelatedError(msg, correlationId) ==
    /\ msg.schemaId = sbeSchemaId
    /\ msg.templateId = "ControlResponse"
    /\ msg.controlSessionId = ControlSessionId
    /\ msg.code = "ERROR"
    /\ msg.correlationId # correlationId

\* startRecording .. truncateRecording: take the mutex, allocate the correlation
\* id, offer the request and, once accepted, fix the deadline of the wait.
SyncRequest(op, results) ==
    /\ call.pc = "idle"
    /\ nextCorrelationId <= MaxCalls
    /\ now + MessageTimeout < MaxClock
    /\ LET correlationId == nextCorrelationId
           o == ArchiveProxy_offer(results)
       IN
       /\ nextCorrelationId' = nextCorrelationId + 1
       /\ IF o.ret = "true"
          THEN /\ sent' = Append(sent, [op |-> op, correlationId |-> correlationId,
                                        controlSessionId |-> ControlSessionId])
               /\ call' = [Idle EXCEPT !.pc = "pollForResponse", !.op = op,
                                       !.correlationId = correlationId,
                                       !.deadlineTs = now + MessageTimeout,
                                       !.startTs = now]
          ELSE /\ sent' = sent
               /\ call' = [Idle EXCEPT !.pc = "thrown", !.op = op,
                                       !.correlationId = correlationId,
                                       !.exception =
                                           IF o.ret = "throw" THEN o.exception
                                           ELSE ArchiveException(<<"failed to send request">>, GENERIC)]
    /\ UNCHANGED <<stream, connected, now, serverSent, poller, polled,
                   hasErrorHandler, furtherVars, handlerLog, unrelatedErrors, lastCheck, listVars, elsewhere>>

\* One poll of the wait of pollForResponse and what the two loops do with it.
PollForResponse ==
    /\ call.pc = "pollForResponse"
    /\ LET r == ControlResponsePoller_poll(poller, stream)
           n == pollNextResponse(call.correlationId, call.deadlineTs, r)
           b == AeronArchive_pollForResponse(call.correlationId, r.poller)
       IN
       /\ poller' = r.poller
       /\ stream' = r.rest
       /\ polled' = r.consumed
       /\ IF n.next = "throw"
          THEN /\ call' = [call EXCEPT !.pc = "thrown", !.exception = n.exception,
                                        !.endTs = now]
               /\ UNCHANGED <<handlerLog, unrelatedErrors>>
          ELSE IF n.next = "continue"
          THEN UNCHANGED <<call, handlerLog, unrelatedErrors>>
          ELSE /\ call' = CASE b.next = "throw" ->
                                 [call EXCEPT !.pc = "thrown", !.exception = b.exception,
                                              !.endTs = now]
                            [] b.next = "return" ->
                                 [call EXCEPT !.pc = "returned", !.value = b.value,
                                              !.endTs = now]
                            [] OTHER -> call
               /\ handlerLog' = IF b.handled # NoException
                                THEN Append(handlerLog, b.handled) ELSE handlerLog
               /\ unrelatedErrors' =
                      IF IsUnrelatedError(r.consumed[Len(r.consumed)], call.correlationId)
                      THEN Append(unrelatedErrors, r.consumed[Len(r.consumed)])
                      ELSE unrelatedErrors
    /\ UNCHANGED <<connected, now, nextCorrelationId, serverSent, sent,
                   hasErrorHandler, furtherVars, lastCheck, listVars, elsewhere>>

\* The call has returned or thrown: the lock_guard releases the mutex.
CallEnd ==
    /\ call.pc \in {"returned", "thrown"}
    /\ call' = Idle
    /\ UNCHANGED <<stream, connected, now, nextCorrelationId, serverSent, poller, polled,
                   sent, hasErrorHandler, furtherVars, handlerLog, unrelatedErrors, lastCheck, listVars, elsewhere>>

(***************************************************************************)
(* AeronArchive::checkForErrorResponse: one poll under the mutex.          *)
(***************************************************************************)
\* What checkForErrorResponse does with the result r of poller.poll().
AeronArchive_checkForErrorResponse(r) ==
    LET p == r.poller
        ex == ArchiveException(<<p.errorMessage>>, p.relevantId)
        nothing == [exception |-> NoException, handled |-> NoException]
    IN
    IF r.exception # NoException
    THEN [nothing EXCEPT !.exception = r.exception]
    ELSE IF r.fragments # 0 /\ p.pollComplete
            /\ p.controlSessionId = ControlSessionId
            /\ isControlResponse(p)
            /\ isCodeError(p)
    THEN IF hasErrorHandler
         THEN [nothing EXCEPT !.handled = ex]
         ELSE [nothing EXCEPT !.exception = ex]
    ELSE nothing

CheckForErrorResponse ==
    /\ call.pc = "idle"
    /\ LET r == ControlResponsePoller_poll(poller, stream)
           c == AeronArchive_checkForErrorResponse(r)
       IN
       /\ poller' = r.poller
       /\ stream' = r.rest
       /\ polled' = r.consumed
       /\ handlerLog' = IF c.handled # NoException
                        THEN Append(handlerLog, c.handled) ELSE handlerLog
       /\ lastCheck' = [ran |-> TRUE, pendingBefore |-> unrelatedErrors,
                        polled |-> r.consumed, exception |-> c.exception]
    /\ UNCHANGED <<connected, now, nextCorrelationId, serverSent, call, sent,
                   hasErrorHandler, furtherVars, unrelatedErrors, listVars, elsewhere>>

(***************************************************************************)
(* RecordingDescriptorPoller and RecordingSubscriptionDescriptorPoller.    *)
(* A fragment yields the poller after it, the ControlledPollAction (or     *)
(* THROW with the exception), the descriptors given to the consumer and    *)
(* the exceptions given to the error handler.                              *)
(***************************************************************************)
Ignored(dp) ==
    [poller |-> dp, action |-> "CONTINUE", exception |-> NoException,
     consumed |-> <<>>, handled |-> <<>>]

RecordingDescriptorPoller_reset(correlationId, recordCount) ==
    [correlationId |-> correlationId, remainingRecordCount |-> recordCount,
     isDispatchComplete |-> FALSE]

RecordingDescriptorPoller_onFragment(dp, msg) ==
    IF msg.schemaId # sbeSchemaId
    THEN [Ignored(dp) EXCEPT !.action = "THROW", !.exception = SchemaException(msg.schemaId)]
    ELSE IF msg.templateId = "ControlResponse"
    THEN IF msg.controlSessionId = ControlSessionId
         THEN IF msg.code = "RECORDING_UNKNOWN" /\ msg.correlationId = dp.correlationId
              THEN [Ignored(dp) EXCEPT !.poller.isDispatchComplete = TRUE, !.action = "BREAK"]
              ELSE IF msg.code = "ERROR"
              THEN LET ex == ArchiveException(
                                 <<"response for correlationId=", dp.correlationId,
                                   ", error: ", msg.errorMessage>>,
                                 msg.relevantId)
                   IN IF msg.correlationId = dp.correlationId
                      THEN [Ignored(dp) EXCEPT !.action = "THROW", !.exception = ex]
                      ELSE IF hasErrorHandler
                      THEN [Ignored(dp) EXCEPT !.handled = <<ex>>]
                      ELSE Ignored(dp)
              ELSE Ignored(dp)
         ELSE Ignored(dp)
    ELSE IF msg.templateId = "RecordingDescriptor"
    THEN LET given == IF msg.controlSessionId = ControlSessionId
                         /\ msg.correlationId = dp.correlationId
                      THEN <<msg>> ELSE <<>>
             remaining == dp.remainingRecordCount - 1
         IN IF remaining = 0
            THEN [Ignored(dp) EXCEPT !.poller.remainingRecordCount = remaining,
                                     !.poller.isDispatchComplete = TRUE,
                                     !.action = "BREAK", !.consumed = given]
            ELSE [Ignored(dp) EXCEPT !.poller.remainingRecordCount = remaining,
                                     !.consumed = given]
    ELSE Ignored(dp)

RecordingSubscriptionDescriptorPoller_reset(correlationId, subscriptionCount) ==
    [correlationId |-> correlationId, remainingRecordCount |-> subscriptionCount,
     isDispatchComplete |-> FALSE]

RecordingSubscriptionDescriptorPoller_onFragment(dp, msg) ==
    IF msg.schemaId # sbeSchemaId
    THEN [Ignored(dp) EXCEPT !.action = "THROW", !.exception = SchemaException(msg.schemaId)]
    ELSE IF msg.templateId = "ControlResponse"
    THEN IF msg.controlSessionId = ControlSessionId
         THEN IF msg.code = "SUBSCRIPTION_UNKNOWN" /\ msg.correlationId = dp.correlationId
              THEN [Ignored(dp) EXCEPT !.poller.isDispatchComplete = TRUE, !.action = "BREAK"]
              ELSE IF msg.code = "ERROR"
              THEN LET ex == ArchiveException(
                                 <<"response for correlationId=", dp.correlationId,
                                   ", error: ", msg.errorMessage>>,
                                 msg.relevantId)
                   IN IF msg.correlationId = dp.correlationId
                      THEN [Ignored(dp) EXCEPT !.action = "THROW", !.exception = ex]
                      ELSE IF hasErrorHandler
                      THEN [Ignored(dp) EXCEPT !.handled = <<ex>>]
                      ELSE Ignored(dp)
              ELSE Ignored(dp)
         ELSE Ignored(dp)
    ELSE IF msg.templateId = "RecordingSubscriptionDescriptor"
    THEN LET given == IF msg.controlSessionId = ControlSessionId
                         /\ msg.correlationId = dp.correlationId
                      THEN <<msg>> ELSE <<>>
             remaining == dp.remainingRecordCount - 1
         IN IF remaining = 0
            THEN [Ignored(dp) EXCEPT !.poller.remainingRecordCount = remaining,
                                     !.poller.isDispatchComplete = TRUE,
                                     !.action = "BREAK", !.consumed = given]
            ELSE [Ignored(dp) EXCEPT !.poller.remainingRecordCount = remaining,
                                     !.consumed = given]
    ELSE Ignored(dp)

\* The fragment handler of the poller that serves the listing operation op.
DescriptorPoller_onFragment(op, dp, msg) ==
    IF op = "listRecordingSubscriptions"
    THEN RecordingSubscriptionDescriptorPoller_onFragment(dp, msg)
    ELSE RecordingDescriptorPoller_onFragment(dp, msg)

\* poll() of either descriptor poller: Subscription::controlledPoll over the
\* messages s with the fragment limit, as for the ControlResponsePoller.
RECURSIVE DescriptorPoller_controlledPoll(_, _, _, _, _)
DescriptorPoller_controlledPoll(op, dp, s, fragmentsRead, acc) ==
    IF s = <<>> \/ fragmentsRead >= FRAGMENT_LIMIT
    THEN [poller |-> dp, rest |-> s, fragments |-> fragmentsRead, exception |-> NoException,
          consumed |-> acc.consumed, handled |-> acc.handled, read |-> acc.read]
    ELSE LET r == DescriptorPoller_onFragment(op, dp, Head(s))
             a == [consumed |-> acc.consumed \o r.consumed,
                   handled |-> acc.handled \o r.handled,
                   read |-> Append(acc.read, Head(s))]
         IN CASE r.action = "THROW" ->
                   [poller |-> r.poller, rest |-> Tail(s), fragments |-> fragmentsRead,
                    exception |-> r.exception,
                    consumed |-> a.consumed, handled |-> a.handled, read |-> a.read]
              [] r.action = "BREAK" ->
                   [poller |-> r.poller, rest |-> Tail(s), fragments |-> fragmentsRead + 1,
                    exception |-> NoException,
                    consumed |-> a.consumed, handled |-> a.handled, read |-> a.read]
              [] OTHER ->
                   DescriptorPoller_controlledPoll(op, r.poller, Tail(s), fragmentsRead + 1, a)

DescriptorPoller_poll(op, dp, s) ==
    DescriptorPoller_controlledPoll(
        op, [dp EXCEPT !.isDispatchComplete = FALSE], s, 0,
        [consumed |-> <<>>, handled |-> <<>>, read |-> <<>>])

(***************************************************************************)
(* AeronArchive: the bounded listings.                                     *)
(***************************************************************************)
ListOps == {"listRecordings", "listRecordingsForUri", "listRecording",
            "listRecordingSubscriptions"}

\* pollForDescriptors keeping the deadline it began with.
pollForDescriptors_FixedDeadline(c, r) ==
    LET remainingRecordCount == r.poller.remainingRecordCount
        progress == remainingRecordCount # c.existingRemainCount
        deadlineTs == c.deadlineTs
        c1 == [c EXCEPT !.existingRemainCount = remainingRecordCount,
                        !.deadlineTs = deadlineTs]
    IN
    IF r.exception # NoException
    THEN [c EXCEPT !.pc = "thrown", !.exception = r.exception, !.endTs = now]
    ELSE IF r.poller.isDispatchComplete
    THEN [c EXCEPT !.pc = "returned", !.value = c.recordCount - remainingRecordCount,
                   !.endTs = now]
    ELSE IF r.fragments > 0
    THEN c1
    ELSE IF ~connected
    THEN [c1 EXCEPT !.pc = "thrown", !.endTs = now,
                    !.exception = ArchiveException(
                        <<"subscription to archive is not connected">>, GENERIC)]
    ELSE IF now > deadlineTs
    THEN [c1 EXCEPT !.pc = "thrown", !.endTs = now,
                    !.exception = TimeoutException(
                        <<"awaiting descriptors - correlationId=", c.correlationId>>)]
    ELSE c1

\* One pass of the loop of pollForDescriptors (pollForSubscriptionDescriptors),
\* r being the result of poller.poll().
AeronArchive_pollForDescriptors(c, r) ==
    LET remainingRecordCount == r.poller.remainingRecordCount
        progress == remainingRecordCount # c.existingRemainCount
        deadlineTs == IF progress THEN now + MessageTimeout ELSE c.deadlineTs
        c1 == [c EXCEPT !.existingRemainCount = remainingRecordCount,
                        !.deadlineTs = deadlineTs]
    IN
    IF r.exception # NoException
    THEN [c EXCEPT !.pc = "thrown", !.exception = r.exception, !.endTs = now]
    ELSE IF r.poller.isDispatchComplete
    THEN [c EXCEPT !.pc = "returned", !.value = c.recordCount - remainingRecordCount,
                   !.endTs = now]
    ELSE IF r.fragments > 0
    THEN c1
    ELSE IF ~connected
    THEN [c1 EXCEPT !.pc = "thrown", !.endTs = now,
                    !.exception = ArchiveException(
                        <<"subscription to archive is not connected">>, GENERIC)]
    ELSE IF now > deadlineTs
    THEN [c1 EXCEPT !.pc = "thrown", !.endTs = now,
                    !.exception = TimeoutException(
                        <<"awaiting descriptors - correlationId=", c.correlationId>>)]
    ELSE c1

\* listRecordings .. listRecordingSubscriptions: take the mutex, allocate the
\* correlation id, offer the request and reset the poller for the listing.
ListRequest(op, recordCount, results) ==
    /\ call.pc = "idle"
    /\ nextCorrelationId <= MaxCalls
    /\ now + MessageTimeout < MaxClock
    /\ op = "listRecording" => recordCount = 1
    /\ LET correlationId == nextCorrelationId
           o == ArchiveProxy_offer(results)
       IN
       /\ nextCorrelationId' = nextCorrelationId + 1
       /\ IF o.ret = "true"
          THEN /\ sent' = Append(sent, [op |-> op, correlationId |-> correlationId,
                                        controlSessionId |-> ControlSessionId])
               /\ call' = [Idle EXCEPT !.pc = "pollForDescriptors", !.op = op,
                                       !.correlationId = correlationId,
                                       !.recordCount = recordCount,
                                       !.existingRemainCount = recordCount,
                                       !.deadlineTs = now + MessageTimeout,
                                       !.startTs = now, !.lastCallbackTs = now]
               /\ IF op = "listRecordingSubscriptions"
                  THEN /\ subscriptionDescriptorPoller' =
                              RecordingSubscriptionDescriptorPoller_reset(correlationId, recordCount)
                       /\ UNCHANGED descriptorPoller
                  ELSE /\ descriptorPoller' =
                              RecordingDescriptorPoller_reset(correlationId, recordCount)
                       /\ UNCHANGED subscriptionDescriptorPoller
               /\ consumerLog' = <<>>
               /\ received' = <<>>
          ELSE /\ sent' = sent
               /\ call' = [Idle EXCEPT !.pc = "thrown", !.op = op,
                                       !.correlationId = correlationId,
                                       !.recordCount = recordCount,
                                       !.exception =
                                           IF o.ret = "throw" THEN o.exception
                                           ELSE ArchiveException(<<"failed to send request">>, GENERIC)]
               /\ UNCHANGED listVars
    /\ UNCHANGED <<stream, connected, now, serverSent, poller, polled,
                   hasErrorHandler, furtherVars, handlerLog, unrelatedErrors, lastCheck, elsewhere>>

\* One poll of the loop of pollForDescriptors or pollForSubscriptionDescriptors.
PollForDescriptors ==
    /\ call.pc = "pollForDescriptors"
    /\ LET subs == call.op = "listRecordingSubscriptions"
           dp == IF subs THEN subscriptionDescriptorPoller ELSE descriptorPoller
           r == DescriptorPoller_poll(call.op, dp, stream)
           c == AeronArchive_pollForDescriptors(call, r)
       IN
       /\ IF subs
          THEN subscriptionDescriptorPoller' = r.poller /\ UNCHANGED descriptorPoller
          ELSE descriptorPoller' = r.poller /\ UNCHANGED subscriptionDescriptorPoller
       /\ stream' = r.rest
       /\ consumerLog' = consumerLog \o r.consumed
       /\ received' = received \o r.read
       /\ handlerLog' = handlerLog \o r.handled
       /\ unrelatedErrors' =
              unrelatedErrors \o SelectSeq(r.read, LAMBDA m : IsUnrelatedError(m, call.correlationId))
       /\ call' = IF r.consumed # <<>> THEN [c EXCEPT !.lastCallbackTs = now] ELSE c
    /\ UNCHANGED <<connected, now, nextCorrelationId, serverSent, poller, polled, sent,
                   hasErrorHandler, furtherVars, lastCheck, elsewhere>>


(***************************************************************************)
(* The environment: the archive server, the clock, the network.            *)
(***************************************************************************)
CorrelationIds == 1..(MaxCalls + 1)

\* What the server may publish while synchronous requests are served.
SyncMessages ==
    {ControlResponse(ControlSessionId, c, x[1], x[2]) :
        c \in CorrelationIds,
        x \in {<<0, "OK">>, <<5, "OK">>, <<5, "ERROR">>, <<0, "RECORDING_UNKNOWN">>}}
    \cup {ControlResponse(OtherSessionId, 1, 5, code) : code \in {"OK", "ERROR"}}
    \cup {Msg(sbeSchemaId, "RecordingDescriptor", ControlSessionId, 1, 0, "OK", "", 0),
          Msg(otherSchemaId, "ControlResponse", ControlSessionId, 1, 0, "OK", "", 0)}

ServerSend(msg) ==
    /\ serverSent < MaxMessages
    /\ serverSent' = serverSent + 1
    /\ stream' = Append(stream, msg)
    /\ UNCHANGED <<connected, now, nextCorrelationId, poller, polled, call, sent,
                   hasErrorHandler, furtherVars, handlerLog, unrelatedErrors, lastCheck, listVars, elsewhere>>

\* The clock and the connection are read only by a wait in progress.
Waiting == call.pc \in {"pollForResponse", "pollForDescriptors"}

Tick ==
    /\ now < MaxClock
    /\ Waiting
    /\ now' = now + 1
    /\ UNCHANGED <<stream, connected, nextCorrelationId, serverSent, poller, polled, call,
                   sent, hasErrorHandler, furtherVars, handlerLog, unrelatedErrors, lastCheck, listVars, elsewhere>>

Disconnect ==
    /\ connected
    /\ Waiting
    /\ connected' = FALSE
    /\ UNCHANGED <<stream, now, nextCorrelationId, serverSent, poller, polled, call, sent,
                   hasErrorHandler, furtherVars, handlerLog, unrelatedErrors, lastCheck, listVars, elsewhere>>

(***************************************************************************)
(* The synchronous requests of one AeronArchive.                           *)
(***************************************************************************)
\* The poller as AsyncConnect::makeArchive hands it over: the OK connect response.
ConnectedPoller ==
    [controlSessionId |-> ControlSessionId, correlationId |-> 0, relevantId |-> 0,
     templateId |-> "ControlResponse", code |-> "OK", errorMessage |-> "",
     pollComplete |-> TRUE]

\* ReplayMerge as constructed: the replay destination added to the subscription.
NewReplayMerge ==
    [state |-> "AWAIT_INITIAL_RECORDING_POSITION", activeCorrelationId |-> NULL_VALUE,
     nextTargetPosition |-> NULL_POSITION, initialMaxPosition |-> NULL_POSITION,
     replaySessionId |-> NULL_VALUE, isReplayActive |-> FALSE, isLiveAdded |-> FALSE,
     image |-> FALSE]

\* No onFragment call yet.
NoFragment ==
    [ran |-> FALSE, poller |-> "none", msg |-> ControlResponse(0, 0, 0, "OK"),
     before |-> <<>>, after |-> <<>>, exception |-> NoException,
     consumed |-> <<>>, handled |-> <<>>, events |-> <<>>]

\* A descriptor poller before its first reset.
NoListing == [correlationId |-> NULL_VALUE, remainingRecordCount |-> 0,
              isDispatchComplete |-> FALSE]

\* No operation of the proxy is in progress.
NoOffer ==
    [pc |-> "idle", flavour |-> "none", retryAttempts |-> 0, remainingAttempts |-> 0,
     connectTimeout |-> 0, startTs |-> 0, deadlineTs |-> 0, results |-> <<>>,
     idles |-> 0, invokes |-> 0, sentinelTs |-> 0, ret |-> FALSE,
     exception |-> NoException]

\* A ControlResponsePoller as constructed; m_code has no initializer.
NewPoller(code) ==
    [controlSessionId |-> NULL_VALUE, correlationId |-> NULL_VALUE,
     relevantId |-> NULL_VALUE, templateId |-> NoTemplateId, code |-> code,
     errorMessage |-> "", pollComplete |-> FALSE]

\* AsyncConnect as constructed: the subscription and the publication have
\* been asked for, nothing has been found yet.
NewAsyncConnect ==
    [subscription |-> FALSE, publication |-> FALSE,
     controlResponsePollerReady |-> FALSE, archiveProxyReady |-> FALSE,
     correlationId |-> NULL_VALUE, poller |-> NewPoller("OK")]

\* No poll() yet.
NoPoll ==
    [ret |-> "none", exception |-> NoException, consumed |-> <<>>,
     connected |-> FALSE, accepted |-> 0, completed |-> FALSE,
     response |-> ControlResponse(0, 0, 0, "OK"), repolled |-> FALSE,
     sentAfter |-> FALSE, raisedAfter |-> FALSE]

NoArchive == [made |-> "no", controlSessionId |-> NULL_VALUE]

\* Two threads that call AeronArchive and one that drives a ReplayMerge on it.
ArchiveThreads == {"t1", "t2"}

MergeThread == "merge"

Agents == ArchiveThreads \cup {MergeThread}

\* A thread outside any call.
NoFrame ==
    [pc |-> "out", op |-> "none", correlationId |-> NULL_VALUE,
     activeCorrelationId |-> NULL_VALUE, interleaved |-> FALSE]

\* The scratch buffer before the first request.
NoRequest == [op |-> "none", correlationId |-> NULL_VALUE,
              controlSessionId |-> NULL_VALUE]

\* The ReplayMerge has not been destroyed.
NotDestroyed ==
    [ran |-> FALSE, state |-> "none", isReplayActive |-> FALSE, stopReplay |-> FALSE,
     requests |-> 0, removed |-> FALSE, exception |-> NoException]

\* No poll() of the response poller on its own yet.
NoPollLog == [ran |-> FALSE, before |-> ConnectedPoller, consumed |-> <<>>,
              fragments |-> 0, exception |-> NoException]

\* Aeron has not registered the publication yet: findPublication returns null.
NoPublication ==
    [registered |-> FALSE, kind |-> "none", channel |-> <<>>, streamId |-> 0,
     sessionId |-> 0, original |-> FALSE]

\* No addRecordedPublication yet.
NoRecording ==
    [pc |-> "idle", kind |-> "none", channel |-> <<>>, streamId |-> 0, idles |-> 0,
     exception |-> NoException]

\* No stopRecording yet.
NoStop ==
    [ran |-> FALSE, form |-> "none", channel |-> <<>>, streamId |-> 0,
     correlationId |-> NULL_VALUE, results |-> <<>>, sentBefore |-> <<>>, now |-> 0,
     sentAfter |-> <<>>, callAfter |-> <<>>, outcome |-> "none",
     exception |-> NoException]

\* An exclusive publication not added yet.
NoExclusivePublication ==
    [added |-> FALSE, position |-> 0, maxPosition |-> 0, log |-> <<>>]

\* RecordingPos: the type id of a recording position counter and the null ids.
RECORDING_POSITION_TYPE_ID == 100
NULL_RECORDING_ID == NULL_VALUE
NULL_COUNTER_ID == NULL_VALUE

\* The states of a metadata record of the registry.
RECORD_UNUSED == "RECORD_UNUSED"
RECORD_ALLOCATED == "RECORD_ALLOCATED"
RECORD_RECLAIMED == "RECORD_RECLAIMED"

\* The type ids, recording ids and session ids the registry is filled with.
TypeIds == {RECORDING_POSITION_TYPE_ID, RECORDING_POSITION_TYPE_ID + 1}
RecordingIds == {1, 2}
CounterSessionIds == {1, 2}

\* A metadata record nothing was ever allocated in.
UnusedCounter ==
    [state |-> RECORD_UNUSED, typeId |-> 0, recordingId |-> 0, sessionId |-> 0]

\* No RecordingPos function called since the registry last changed.
NoLookup ==
    [op |-> "none", arg |-> 0, counterId |-> 0, result |-> 0, active |-> FALSE]

\* CountersReader::maxCounterId(): the bound of the scans, the number of records.
maxCounterId(countersReader) == Len(countersReader)

\* CountersReader::getCounterState(i): the state word of record i.
getCounterState(countersReader, i) == countersReader[i + 1].state

\* The type id word and the key of record i, read from the metadata buffer.
getTypeId(countersReader, i) == countersReader[i + 1].typeId

\* `for (i = 0, size = maxCounterId(); i < size; ++i)` of findCounterIdByRecording,
\* from i on.
RECURSIVE scanByRecording(_, _, _)

scanByRecording_AnyState(countersReader, recordingId, i) ==
    IF ~(i < maxCounterId(countersReader)) THEN NULL_COUNTER_ID
    ELSE IF /\ getTypeId(countersReader, i) = RECORDING_POSITION_TYPE_ID
            /\ countersReader[i + 1].recordingId = recordingId
         THEN i
         ELSE scanByRecording(countersReader, recordingId, i + 1)

scanByRecording(countersReader, recordingId, i) ==
    IF ~(i < maxCounterId(countersReader)) THEN NULL_COUNTER_ID
    ELSE IF /\ getCounterState(countersReader, i) = RECORD_ALLOCATED
            /\ getTypeId(countersReader, i) = RECORDING_POSITION_TYPE_ID
            /\ countersReader[i + 1].recordingId = recordingId
         THEN i
         ELSE scanByRecording(countersReader, recordingId, i + 1)

findCounterIdByRecording(countersReader, recordingId) ==
    scanByRecording(countersReader, recordingId, 0)

\* The same loop of findCounterIdBySession, on the session id of the key.
RECURSIVE scanBySession(_, _, _)

scanBySession(countersReader, sessionId, i) ==
    IF ~(i < maxCounterId(countersReader)) THEN NULL_COUNTER_ID
    ELSE IF /\ getCounterState(countersReader, i) = RECORD_ALLOCATED
            /\ getTypeId(countersReader, i) = RECORDING_POSITION_TYPE_ID
            /\ countersReader[i + 1].sessionId = sessionId
         THEN i
         ELSE scanBySession(countersReader, sessionId, i + 1)

findCounterIdBySession(countersReader, sessionId) ==
    scanBySession(countersReader, sessionId, 0)

\* getRecordingId: the recording id of the key, for an allocated recording
\* position counter.
getRecordingId(countersReader, counterId) ==
    IF /\ getCounterState(countersReader, counterId) = RECORD_ALLOCATED
       /\ getTypeId(countersReader, counterId) = RECORDING_POSITION_TYPE_ID
    THEN countersReader[counterId + 1].recordingId
    ELSE NULL_RECORDING_ID

\* isActive: the counter is an allocated recording position counter of the
\* recording.
isActive(countersReader, counterId, recordingId) ==
    IF /\ getCounterState(countersReader, counterId) = RECORD_ALLOCATED
       /\ getTypeId(countersReader, counterId) = RECORDING_POSITION_TYPE_ID
    THEN countersReader[counterId + 1].recordingId = recordingId
    ELSE FALSE

\* FrameDescriptor: the flag bits of a frame; UNFRAGMENTED is both.
BEGIN_FRAG == "BEGIN_FRAG"
END_FRAG == "END_FRAG"
UNFRAGMENTED == {BEGIN_FRAG, END_FRAG}

\* The sessions and the frames the subscription hands to the assembler.
FrameSessionIds == {1, 2}
Frames ==
    [sessionId : FrameSessionIds, flags : SUBSET UNFRAGMENTED, payload : {<<1>>, <<2>>}]

\* BufferBuilder: the bytes appended after the room left for the frame header;
\* limit() is DataFrameHeader::LENGTH exactly when there are none.
NoBuilder == [present |-> FALSE, data |-> <<>>]
BufferBuilder_reset(builder) == [present |-> TRUE, data |-> <<>>]
BufferBuilder_append(builder, payload) == [builder EXCEPT !.data = @ \o payload]

\* The assembler as constructed, and no onFragment yet.
NoRedelivery == [due |-> FALSE, frame |-> [sessionId |-> 0, flags |-> {}, payload |-> <<>>]]
NewFragmentAssembler ==
    [builderBySessionIdMap |-> [sessionId \in FrameSessionIds |-> NoBuilder],
     handler |-> "none", redelivery |-> NoRedelivery]
NoFrameYet ==
    [ran |-> FALSE, frame |-> NoRedelivery.frame, calls |-> <<>>, action |-> "CONTINUE",
     pending |-> <<>>]

\* onFragment appending a BEGIN fragment to what the builder holds.
onFragment_BeginAppends(map, frame, reply) ==
    LET sessionId == frame.sessionId
        builder == map[sessionId]
        nothing == [map |-> map, calls |-> <<>>, action |-> "CONTINUE"]
        appended == BufferBuilder_append(builder, frame.payload)
    IN
    IF UNFRAGMENTED \subseteq frame.flags
    THEN [map |-> map, calls |-> <<frame.payload>>, action |-> reply]
    ELSE IF BEGIN_FRAG \in frame.flags
    THEN [nothing EXCEPT !.map[sessionId] = [appended EXCEPT !.present = TRUE]]
    ELSE IF ~builder.present \/ builder.data = <<>>
    THEN nothing
    ELSE IF END_FRAG \in frame.flags
    THEN [map |-> [map EXCEPT ![sessionId] =
                       IF reply = "ABORT" THEN builder ELSE BufferBuilder_reset(appended)],
          calls |-> <<appended.data>>, action |-> reply]
    ELSE [nothing EXCEPT !.map[sessionId] = appended]

\* The controlled onFragment: the map of builders afterwards, the calls of the
\* delegate with their payload, and the action returned; reply is what the
\* delegate returns when it is called.
onFragment(map, frame, reply) ==
    LET sessionId == frame.sessionId
        builder == map[sessionId]
        nothing == [map |-> map, calls |-> <<>>, action |-> "CONTINUE"]
        appended == BufferBuilder_append(builder, frame.payload)
    IN
    IF UNFRAGMENTED \subseteq frame.flags
    THEN [map |-> map, calls |-> <<frame.payload>>, action |-> reply]
    ELSE IF BEGIN_FRAG \in frame.flags
    THEN [nothing EXCEPT !.map[sessionId] =
              BufferBuilder_append(BufferBuilder_reset(builder), frame.payload)]
    ELSE IF ~builder.present \/ builder.data = <<>>
    THEN nothing
    ELSE IF END_FRAG \in frame.flags
    THEN [map |-> [map EXCEPT ![sessionId] =
                       IF reply = "ABORT" THEN builder ELSE BufferBuilder_reset(appended)],
          calls |-> <<appended.data>>, action |-> reply]
    ELSE [nothing EXCEPT !.map[sessionId] = appended]

\* The onFragment of a fragment_handler_t: the delegate returns nothing, the
\* builder is reset after the call.
onFragment_void(map, frame) ==
    LET sessionId == frame.sessionId
        builder == map[sessionId]
        nothing == [map |-> map, calls |-> <<>>, action |-> "CONTINUE"]
        appended == BufferBuilder_append(builder, frame.payload)
    IN
    IF UNFRAGMENTED \subseteq frame.flags
    THEN [nothing EXCEPT !.calls = <<frame.payload>>]
    ELSE IF BEGIN_FRAG \in frame.flags
    THEN [nothing EXCEPT !.map[sessionId] =
              BufferBuilder_append(BufferBuilder_reset(builder), frame.payload)]
    ELSE IF ~builder.present \/ builder.data = <<>>
    THEN nothing
    ELSE IF END_FRAG \in frame.flags
    THEN [nothing EXCEPT !.map[sessionId] = BufferBuilder_reset(appended),
                         !.calls = <<appended.data>>]
    ELSE [nothing EXCEPT !.map[sessionId] = appended]

\* The system test before its first statement.
NewTest ==
    [pc |-> "add_first", pub |-> 0, send_value |-> 0, expected_rcv_value |-> 0,
     expected_position |-> 0, result |-> 0, failed |-> FALSE]

\* No pollForErrorResponse yet.
NoPeek == [ran |-> FALSE, polled |-> <<>>, left |-> <<>>, ret |-> "",
           exception |-> NoException]

\* The AeronArchive has not been destroyed.
NotClosed == [ran |-> FALSE, mutex |-> "none", attempts |-> 0, ret |-> "none",
              exception |-> NoException]

NoCheck == [ran |-> FALSE, pendingBefore |-> <<>>, polled |-> <<>>,
            exception |-> NoException]

Init ==
    /\ stream = <<>>
    /\ connected = TRUE
    /\ now = 0
    /\ nextCorrelationId = 1
    /\ serverSent = 0
    /\ poller = ConnectedPoller
    /\ polled = <<>>
    /\ call = Idle
    /\ sent = <<>>
    /\ hasErrorHandler \in BOOLEAN
    /\ handlerLog = <<>>
    /\ unrelatedErrors = <<>>
    /\ lastCheck = NoCheck
    /\ descriptorPoller = NoListing
    /\ subscriptionDescriptorPoller = NoListing
    /\ consumerLog = <<>>
    /\ received = <<>>
    /\ polling = "none"
    /\ fragment = NoFragment
    /\ eventLog = <<>>
    /\ rm = NewReplayMerge
    /\ destinations = {"replayDestination"}
    /\ imagePosition = 0
    /\ inFlight = {}
    /\ answered = {}
    /\ served = {}
    /\ liveCalls = 0
    /\ destroyed = NotDestroyed
    /\ proxy = NoOffer
    /\ hrClock = 0
    /\ ac = NewAsyncConnect
    /\ driver = [sub |-> "pending", pub |-> "pending", nextCorrelationId |-> 1]
    /\ acStream = <<>>
    /\ acLog = NoPoll
    /\ archive = NoArchive
    /\ mutex = "free"
    /\ th = [a \in Agents |-> NoFrame]
    /\ buffer = NoRequest
    /\ replied = 0
    /\ pollLog = NoPollLog
    /\ closeLog = NotClosed
    /\ aeronPub = NoPublication
    /\ rec = NoRecording
    /\ stopLog = NoStop
    /\ errLog = NoPeek
    /\ test = NewTest
    /\ pubs = [i \in 1..2 |-> NoExclusivePublication]
    /\ sub = [consumed |-> [i \in 1..2 |-> 0], received |-> <<>>]
    /\ counters = [i \in 1..NumCounters |-> UnusedCounter]
    /\ lookup = NoLookup
    /\ fa = NewFragmentAssembler
    /\ faLog = NoFrameYet
    /\ runs = [sessionId \in FrameSessionIds |-> <<>>]

Next ==
    \/ \E op \in SyncOps, results \in OfferResults : SyncRequest(op, results)
    \/ PollForResponse
    \/ \E msg \in SyncMessages : ServerSend(msg)
    \/ Tick
    \/ Disconnect

Spec == Init /\ [][Next]_vars

(***************************************************************************)
(* The bounded listings of one AeronArchive.                               *)
(***************************************************************************)
\* What the server may publish while listings are served.
ListMessages ==
    {Msg(sbeSchemaId, t, ControlSessionId, 1, 0, "OK", "", body) :
        t \in {"RecordingDescriptor", "RecordingSubscriptionDescriptor"}, body \in {0, 1}}
    \cup {Msg(sbeSchemaId, t, x[1], x[2], 0, "OK", "", 0) :
        t \in {"RecordingDescriptor", "RecordingSubscriptionDescriptor"},
        x \in {<<ControlSessionId, 2>>, <<OtherSessionId, 1>>}}
    \cup {ControlResponse(ControlSessionId, c, 0, code) :
        c \in CorrelationIds, code \in {"RECORDING_UNKNOWN", "SUBSCRIPTION_UNKNOWN"}}
    \cup {ControlResponse(ControlSessionId, c, 5, "ERROR") : c \in CorrelationIds}
    \cup {Msg(otherSchemaId, "RecordingDescriptor", ControlSessionId, 1, 0, "OK", "", 0)}

RecordCounts == 0..MaxRecordCount

NextList ==
    \/ \E op \in ListOps, recordCount \in RecordCounts, results \in OfferResults :
           ListRequest(op, recordCount, results)
    \/ PollForDescriptors
    \/ \E msg \in ListMessages : ServerSend(msg)
    \/ Tick
    \/ Disconnect

SpecList == Init /\ [][NextList]_vars

(***************************************************************************)
(* The waits of the client, for a response and for descriptors, side by    *)
(* side.                                                                   *)
(***************************************************************************)
WaitMessages ==
    {ControlResponse(ControlSessionId, 1, 0, "OK"),
     ControlResponse(ControlSessionId, 2, 0, "OK"),
     ControlResponse(OtherSessionId, 1, 5, "OK"),
     Msg(sbeSchemaId, "RecordingDescriptor", ControlSessionId, 1, 0, "OK", "", 0),
     Msg(sbeSchemaId, "RecordingDescriptor", ControlSessionId, 2, 0, "OK", "", 0),
     Msg(sbeSchemaId, "RecordingSubscriptionDescriptor", ControlSessionId, 1, 0, "OK", "", 0)}

NextWait ==
    \/ \E op \in SyncOps, results \in OfferResults : SyncRequest(op, results)
    \/ \E op \in ListOps, recordCount \in RecordCounts, results \in OfferResults :
           ListRequest(op, recordCount, results)
    \/ PollForResponse
    \/ PollForDescriptors
    \/ \E msg \in WaitMessages : ServerSend(msg)
    \/ Tick
    \/ Disconnect

SpecWait == Init /\ [][NextWait]_vars

(***************************************************************************)
(* A wait whose response never comes while the response stream stays busy: *)
(* messages that are not the awaited one arrive for as long as the call    *)
(* waits.  The call polls again and again and the clock advances.          *)
(***************************************************************************)
BusyMessages ==
    {ControlResponse(ControlSessionId, MaxCalls + 1, 0, "OK"),
     ControlResponse(OtherSessionId, 1, 5, "OK"),
     Msg(sbeSchemaId, "RecordingDescriptor", OtherSessionId, 1, 0, "OK", "", 0)}

\* The archive publishes msg on the response stream of the waiting call.
Arrive(msg) ==
    /\ Waiting
    /\ Len(stream) < MaxMessages
    /\ stream' = Append(stream, msg)
    /\ UNCHANGED <<connected, now, nextCorrelationId, serverSent, poller, polled, call, sent,
                   hasErrorHandler, furtherVars, handlerLog, unrelatedErrors, lastCheck,
                   listVars, elsewhere>>

NextBusy ==
    \/ \E op \in SyncOps, results \in OfferResults : SyncRequest(op, results)
    \/ PollForResponse
    \/ \E msg \in BusyMessages : Arrive(msg)
    \/ Tick

SpecBusy == Init /\ [][NextBusy]_vars /\ WF_vars(PollForResponse) /\ WF_vars(Tick)

(***************************************************************************)
(* Errors for another correlation id across the three waits and            *)
(* checkForErrorResponse.                                                  *)
(***************************************************************************)
ErrMessages ==
    {ControlResponse(ControlSessionId, c, 5, "ERROR") : c \in CorrelationIds}
    \cup {ControlResponse(ControlSessionId, 1, 0, code) :
            code \in {"OK", "RECORDING_UNKNOWN", "SUBSCRIPTION_UNKNOWN"}}
    \cup {ControlResponse(OtherSessionId, 2, 5, "ERROR")}

NextErr ==
    \/ \E op \in SyncOps, results \in OfferResults : SyncRequest(op, results)
    \/ \E op \in ListOps, recordCount \in RecordCounts, results \in OfferResults :
           ListRequest(op, recordCount, results)
    \/ PollForResponse
    \/ PollForDescriptors
    \/ CallEnd
    \/ CheckForErrorResponse
    \/ \E msg \in ErrMessages : ServerSend(msg)
    \/ Tick
    \/ Disconnect

SpecErr == Init /\ [][NextErr]_vars

(***************************************************************************)
(* The four pollers, one fragment at a time.                               *)
(***************************************************************************)
\* The handler RecordingEventsListener::poll gives to Subscription::poll: the
\* exception it throws, if any, and the events it hands to onStart,
\* onProgress and onStop.
RecordingEventsListener_poll(msg) ==
    IF msg.schemaId # sbeSchemaId
    THEN [exception |-> SchemaException(msg.schemaId), events |-> <<>>]
    ELSE IF msg.templateId = "RecordingStarted"
    THEN [exception |-> NoException, events |-> <<[callback |-> "onStart", event |-> msg]>>]
    ELSE IF msg.templateId = "RecordingProgress"
    THEN [exception |-> NoException, events |-> <<[callback |-> "onProgress", event |-> msg]>>]
    ELSE IF msg.templateId = "RecordingStopped"
    THEN [exception |-> NoException, events |-> <<[callback |-> "onStop", event |-> msg]>>]
    ELSE [exception |-> NoException, events |-> <<>>]

Pollers == {"ControlResponsePoller", "RecordingDescriptorPoller",
            "RecordingSubscriptionDescriptorPoller", "RecordingEventsListener"}

\* The client resets a descriptor poller for its first listing, of recordCount
\* entries.
ResetDescriptorPoller(who, recordCount) ==
    /\ polling = "none"
    /\ \/ /\ who = "RecordingDescriptorPoller"
          /\ descriptorPoller = NoListing
          /\ descriptorPoller' = RecordingDescriptorPoller_reset(1, recordCount)
          /\ UNCHANGED subscriptionDescriptorPoller
       \/ /\ who = "RecordingSubscriptionDescriptorPoller"
          /\ subscriptionDescriptorPoller = NoListing
          /\ subscriptionDescriptorPoller' =
                 RecordingSubscriptionDescriptorPoller_reset(1, recordCount)
          /\ UNCHANGED descriptorPoller
    /\ UNCHANGED <<stream, connected, now, nextCorrelationId, serverSent, poller, polled,
                   call, sent, hasErrorHandler, furtherVars, handlerLog, unrelatedErrors, lastCheck,
                   consumerLog, received, pollVars, mergeVars>>

\* poll() of a poller up to its call of the subscription.
BeginPoll(who) ==
    /\ polling = "none"
    /\ polling' = who
    /\ poller' = IF who = "ControlResponsePoller"
                 THEN ControlResponsePoller_reset(poller) ELSE poller
    /\ descriptorPoller' = IF who = "RecordingDescriptorPoller"
                           THEN [descriptorPoller EXCEPT !.isDispatchComplete = FALSE]
                           ELSE descriptorPoller
    /\ subscriptionDescriptorPoller' =
           IF who = "RecordingSubscriptionDescriptorPoller"
           THEN [subscriptionDescriptorPoller EXCEPT !.isDispatchComplete = FALSE]
           ELSE subscriptionDescriptorPoller
    /\ UNCHANGED <<stream, connected, now, nextCorrelationId, serverSent, polled,
                   call, sent, hasErrorHandler, furtherVars, handlerLog, unrelatedErrors, lastCheck,
                   consumerLog, received, fragment, eventLog, mergeVars>>

\* The subscription hands the next fragment to the handler of the poll in
\* progress; BREAK, ABORT and an exception end the poll.
OnFragment(msg) ==
    /\ polling # "none"
    /\ serverSent < MaxMessages
    /\ serverSent' = serverSent + 1
    /\ LET before == CASE polling = "ControlResponsePoller" -> poller
                       [] polling = "RecordingDescriptorPoller" -> descriptorPoller
                       [] polling = "RecordingSubscriptionDescriptorPoller" ->
                            subscriptionDescriptorPoller
                       [] OTHER -> <<>>
           c == ControlResponsePoller_onFragment(poller, msg)
           d == RecordingDescriptorPoller_onFragment(descriptorPoller, msg)
           u == RecordingSubscriptionDescriptorPoller_onFragment(
                    subscriptionDescriptorPoller, msg)
           e == RecordingEventsListener_poll(msg)
           done == CASE polling = "ControlResponsePoller" ->
                          [NoFragment EXCEPT
                               !.after = c.poller,
                               !.exception = IF c.action = "THROW"
                                             THEN SchemaException(msg.schemaId)
                                             ELSE NoException]
                     [] polling = "RecordingDescriptorPoller" ->
                          [NoFragment EXCEPT !.after = d.poller, !.exception = d.exception,
                                             !.consumed = d.consumed, !.handled = d.handled]
                     [] polling = "RecordingSubscriptionDescriptorPoller" ->
                          [NoFragment EXCEPT !.after = u.poller, !.exception = u.exception,
                                             !.consumed = u.consumed, !.handled = u.handled]
                     [] OTHER ->
                          [NoFragment EXCEPT !.exception = e.exception, !.events = e.events]
           action == CASE polling = "ControlResponsePoller" -> c.action
                       [] polling = "RecordingDescriptorPoller" -> d.action
                       [] polling = "RecordingSubscriptionDescriptorPoller" -> u.action
                       [] OTHER -> IF e.exception # NoException THEN "THROW" ELSE "CONTINUE"
       IN
       /\ fragment' = [done EXCEPT !.ran = TRUE, !.poller = polling, !.msg = msg,
                                   !.before = before]
       /\ poller' = IF polling = "ControlResponsePoller" THEN c.poller ELSE poller
       /\ descriptorPoller' =
              IF polling = "RecordingDescriptorPoller" THEN d.poller ELSE descriptorPoller
       /\ subscriptionDescriptorPoller' =
              IF polling = "RecordingSubscriptionDescriptorPoller"
              THEN u.poller ELSE subscriptionDescriptorPoller
       /\ consumerLog' = consumerLog \o done.consumed
       /\ handlerLog' = handlerLog \o done.handled
       /\ eventLog' = eventLog \o done.events
       /\ polling' = IF action = "CONTINUE" THEN polling ELSE "none"
    /\ UNCHANGED <<stream, connected, now, nextCorrelationId, polled, call, sent,
                   hasErrorHandler, furtherVars, unrelatedErrors, lastCheck, received, mergeVars>>

\* The subscription has no more fragments for this poll.
EndPoll ==
    /\ polling # "none"
    /\ polling' = "none"
    /\ UNCHANGED <<stream, connected, now, nextCorrelationId, serverSent, poller, polled,
                   call, sent, hasErrorHandler, furtherVars, handlerLog, unrelatedErrors, lastCheck,
                   listVars, fragment, eventLog, mergeVars>>

\* What the response and the recording events streams may carry.
PollerMessages ==
    {Msg(schemaId, t, ControlSessionId, 1, 0, "OK", "", 0) :
        schemaId \in {sbeSchemaId, otherSchemaId},
        t \in {"RecordingDescriptor", "RecordingSubscriptionDescriptor",
               "RecordingStarted", "RecordingProgress", "RecordingStopped"}}
    \cup {Msg(schemaId, "ControlResponse", ControlSessionId, x[1], 5, x[2], x[3], 0) :
        schemaId \in {sbeSchemaId, otherSchemaId},
        x \in {<<1, "OK", "">>, <<2, "ERROR", "boom">>, <<1, "RECORDING_UNKNOWN", "">>,
               <<1, "SUBSCRIPTION_UNKNOWN", "">>}}

NextPollers ==
    \/ \E who \in {"RecordingDescriptorPoller", "RecordingSubscriptionDescriptorPoller"} :
           ResetDescriptorPoller(who, MaxRecordCount)
    \/ \E who \in Pollers : BeginPoll(who)
    \/ \E msg \in PollerMessages : OnFragment(msg)
    \/ EndPoll

SpecPollers == Init /\ [][NextPollers]_vars

(***************************************************************************)
(* The descriptor pollers over a stream that also carries the descriptors  *)
(* of other sessions and of other requests of this session.                *)
(***************************************************************************)
DescriptorPollers == {"RecordingDescriptorPoller", "RecordingSubscriptionDescriptorPoller"}

DescriptorMessages ==
    {Msg(sbeSchemaId, t, session, correlationId, 0, "OK", "", 0) :
        t \in {"RecordingDescriptor", "RecordingSubscriptionDescriptor"},
        session \in {ControlSessionId, OtherSessionId},
        correlationId \in 1..2}

NextDescriptors ==
    \/ \E who \in DescriptorPollers : ResetDescriptorPoller(who, MaxRecordCount)
    \/ \E who \in DescriptorPollers : BeginPoll(who)
    \/ \E msg \in DescriptorMessages : OnFragment(msg)
    \/ EndPoll

SpecDescriptors == Init /\ [][NextDescriptors]_vars

(***************************************************************************)
(* ReplayMerge.  doWork calls the await function of the current state; an  *)
(* exception leaving it puts the machine in FAILED.  The archive answers   *)
(* each request at most once.                                              *)
(***************************************************************************)
\* The margins of shouldAddLiveDestination and shouldStopAndRemoveReplay, in
\* the positions of the model.
REPLAY_MERGE_LIVE_ADD_THRESHOLD == 1
REPLAY_MERGE_REPLAY_REMOVE_THRESHOLD == 0

shouldAddLiveDestination(m, position) ==
    ~m.isLiveAdded /\ m.nextTargetPosition - position <= REPLAY_MERGE_LIVE_ADD_THRESHOLD

shouldStopAndRemoveReplay(m, position) ==
    m.isLiveAdded /\ m.nextTargetPosition - position <= REPLAY_MERGE_REPLAY_REMOVE_THRESHOLD

\* doWork dispatches on m_state, as long as the ReplayMerge exists.
doWork(state) ==
    rm.state = state /\ ~destroyed.ran /\ nextCorrelationId <= MaxMergeRequests

\* doWork after an exception has left the await function with the members m.
Failed(m) == [m EXCEPT !.state = "FAILED"]

\* pollForResponse of ReplayMerge.cpp over the result r of poller.poll().
ReplayMerge_pollForResponse(r, correlationId) ==
    IF r.exception # NoException
    THEN [ret |-> "throw", exception |-> r.exception]
    ELSE IF r.fragments > 0 /\ r.poller.pollComplete
            /\ r.poller.controlSessionId = ControlSessionId
            /\ r.poller.correlationId = correlationId
    THEN IF isCodeError(r.poller)
         THEN [ret |-> "throw",
               exception |-> ArchiveException(
                   <<"archive response for correlationId=", correlationId, ", errorL ",
                     r.poller.errorMessage>>,
                   r.poller.relevantId)]
         ELSE [ret |-> "true", exception |-> NoException]
    ELSE [ret |-> "false", exception |-> NoException]

\* Correlation ids of the responses of this session among the messages read.
ResponseIds(msgs) ==
    {msgs[i].correlationId : i \in {j \in 1..Len(msgs) :
        /\ msgs[j].schemaId = sbeSchemaId
        /\ msgs[j].templateId = "ControlResponse"
        /\ msgs[j].controlSessionId = ControlSessionId}}

\* Allocate a correlation id and offer the request op; the id becomes the
\* active one only when the offer is accepted.  m and pending are the members
\* and the unanswered requests the await function has arrived at.
OfferRequest(op, results, m, pending) ==
    LET correlationId == nextCorrelationId
        o == ArchiveProxy_offer(results)
    IN
    /\ nextCorrelationId' = nextCorrelationId + 1
    /\ CASE o.ret = "true" ->
              /\ sent' = Append(sent, [op |-> op, correlationId |-> correlationId,
                                       controlSessionId |-> ControlSessionId])
              /\ inFlight' = pending \cup {correlationId}
              /\ rm' = [m EXCEPT !.activeCorrelationId = correlationId]
         [] o.ret = "false" ->
              /\ sent' = sent
              /\ inFlight' = pending
              /\ rm' = m
         [] OTHER ->
              /\ sent' = sent
              /\ inFlight' = pending
              /\ rm' = Failed(m)

\* The poller has read the messages of r.
Polled(r) ==
    /\ poller' = r.poller
    /\ stream' = r.rest
    /\ polled' = r.consumed
    /\ answered' = answered \cup ResponseIds(r.consumed)

\* awaitInitialRecordingPosition taking a NULL_POSITION reply for the position.
awaitInitialRecordingPosition_NoFallback(results) ==
    /\ doWork("AWAIT_INITIAL_RECORDING_POSITION")
    /\ IF rm.activeCorrelationId = NULL_VALUE
       THEN /\ OfferRequest("getRecordingPosition", results, rm, inFlight)
            /\ UNCHANGED <<poller, stream, polled, answered>>
       ELSE LET r == ControlResponsePoller_poll(poller, stream)
                h == ReplayMerge_pollForResponse(r, rm.activeCorrelationId)
                m == [rm EXCEPT !.nextTargetPosition = r.poller.relevantId]
            IN
            /\ Polled(r)
            /\ inFlight' = inFlight \ ResponseIds(r.consumed)
            /\ rm' = CASE h.ret = "true" ->
                            [m EXCEPT !.initialMaxPosition = m.nextTargetPosition,
                                      !.activeCorrelationId = NULL_VALUE,
                                      !.state = "AWAIT_REPLAY"]
                       [] h.ret = "throw" -> Failed(rm)
                       [] OTHER -> rm
            /\ UNCHANGED <<nextCorrelationId, sent>>
    /\ UNCHANGED <<connected, now, serverSent, call, hasErrorHandler, furtherVars, handlerLog,
                   unrelatedErrors, lastCheck, listVars, pollVars, destinations,
                   imagePosition, served, liveCalls>>

AwaitInitialRecordingPosition(results) ==
    /\ doWork("AWAIT_INITIAL_RECORDING_POSITION")
    /\ IF rm.activeCorrelationId = NULL_VALUE
       THEN /\ OfferRequest("getRecordingPosition", results, rm, inFlight)
            /\ UNCHANGED <<poller, stream, polled, answered>>
       ELSE LET r == ControlResponsePoller_poll(poller, stream)
                h == ReplayMerge_pollForResponse(r, rm.activeCorrelationId)
                pending == inFlight \ ResponseIds(r.consumed)
                m == [rm EXCEPT !.nextTargetPosition = r.poller.relevantId]
            IN
            /\ Polled(r)
            /\ CASE h.ret = "true" /\ m.nextTargetPosition = NULL_POSITION ->
                      OfferRequest("getStopPosition", results, m, pending)
                 [] h.ret = "true" /\ m.nextTargetPosition # NULL_POSITION ->
                      /\ rm' = [m EXCEPT !.initialMaxPosition = m.nextTargetPosition,
                                         !.activeCorrelationId = NULL_VALUE,
                                         !.state = "AWAIT_REPLAY"]
                      /\ inFlight' = pending
                      /\ UNCHANGED <<nextCorrelationId, sent>>
                 [] h.ret = "throw" ->
                      /\ rm' = Failed(rm)
                      /\ inFlight' = pending
                      /\ UNCHANGED <<nextCorrelationId, sent>>
                 [] OTHER ->
                      /\ inFlight' = pending
                      /\ UNCHANGED <<rm, nextCorrelationId, sent>>
    /\ UNCHANGED <<connected, now, serverSent, call, hasErrorHandler, furtherVars, handlerLog,
                   unrelatedErrors, lastCheck, listVars, pollVars, destinations,
                   imagePosition, served, liveCalls>>

AwaitReplay(results) ==
    /\ doWork("AWAIT_REPLAY")
    /\ IF rm.activeCorrelationId = NULL_VALUE
       THEN /\ OfferRequest("replay", results, rm, inFlight)
            /\ UNCHANGED <<poller, stream, polled, answered>>
       ELSE LET r == ControlResponsePoller_poll(poller, stream)
                h == ReplayMerge_pollForResponse(r, rm.activeCorrelationId)
                pending == inFlight \ ResponseIds(r.consumed)
            IN
            /\ Polled(r)
            /\ inFlight' = pending
            /\ rm' = CASE h.ret = "true" ->
                            [rm EXCEPT !.isReplayActive = TRUE,
                                       !.replaySessionId = r.poller.relevantId,
                                       !.activeCorrelationId = NULL_VALUE,
                                       !.state = "AWAIT_CATCH_UP"]
                       [] h.ret = "throw" -> Failed(rm)
                       [] OTHER -> rm
            /\ UNCHANGED <<nextCorrelationId, sent>>
    /\ UNCHANGED <<connected, now, serverSent, call, hasErrorHandler, furtherVars, handlerLog,
                   unrelatedErrors, lastCheck, listVars, pollVars, destinations,
                   imagePosition, served, liveCalls>>

\* found: the subscription is connected and has the image of the replay session.
AwaitCatchUp(found) ==
    /\ doWork("AWAIT_CATCH_UP")
    /\ LET m == IF ~rm.image /\ found THEN [rm EXCEPT !.image = TRUE] ELSE rm IN
       rm' = IF m.image /\ imagePosition >= m.nextTargetPosition
             THEN [m EXCEPT !.activeCorrelationId = NULL_VALUE,
                            !.state = "AWAIT_CURRENT_RECORDING_POSITION"]
             ELSE m
    /\ UNCHANGED <<stream, connected, now, nextCorrelationId, serverSent, poller, polled,
                   call, sent, hasErrorHandler, furtherVars, handlerLog, unrelatedErrors, lastCheck,
                   listVars, pollVars, destinations, imagePosition, inFlight, answered,
                   served, liveCalls>>

\* awaitUpdatedRecordingPosition adding the live destination without
\* m_isLiveAdded = true.
awaitUpdatedRecordingPosition_NotMarked(results) ==
    /\ doWork("AWAIT_CURRENT_RECORDING_POSITION")
    /\ IF rm.activeCorrelationId = NULL_VALUE
       THEN /\ OfferRequest("getRecordingPosition", results, rm, inFlight)
            /\ UNCHANGED <<poller, stream, polled, answered, destinations, liveCalls>>
       ELSE LET r == ControlResponsePoller_poll(poller, stream)
                h == ReplayMerge_pollForResponse(r, rm.activeCorrelationId)
                pending == inFlight \ ResponseIds(r.consumed)
                m == [rm EXCEPT !.nextTargetPosition = r.poller.relevantId]
                addLive == m.image /\ shouldAddLiveDestination(m, imagePosition)
                stop == m.image /\ ~addLive /\ shouldStopAndRemoveReplay(m, imagePosition)
            IN
            /\ Polled(r)
            /\ CASE h.ret = "true" /\ m.nextTargetPosition = NULL_POSITION ->
                      /\ OfferRequest("getRecordingPosition", results, m, pending)
                      /\ UNCHANGED <<destinations, liveCalls>>
                 [] h.ret = "true" /\ m.nextTargetPosition # NULL_POSITION ->
                      /\ destinations' = IF addLive
                                         THEN destinations \cup {"liveDestination"}
                                         ELSE destinations
                      /\ liveCalls' = IF addLive THEN liveCalls + 1 ELSE liveCalls
                      /\ rm' = [m EXCEPT !.activeCorrelationId = NULL_VALUE,
                                !.state = IF stop THEN "AWAIT_STOP_REPLAY"
                                          ELSE "AWAIT_CATCH_UP"]
                      /\ inFlight' = pending
                      /\ UNCHANGED <<nextCorrelationId, sent>>
                 [] h.ret = "throw" ->
                      /\ rm' = Failed(rm)
                      /\ inFlight' = pending
                      /\ UNCHANGED <<nextCorrelationId, sent, destinations, liveCalls>>
                 [] OTHER ->
                      /\ inFlight' = pending
                      /\ UNCHANGED <<rm, nextCorrelationId, sent, destinations, liveCalls>>
    /\ UNCHANGED <<connected, now, serverSent, call, hasErrorHandler, furtherVars, handlerLog,
                   unrelatedErrors, lastCheck, listVars, pollVars, imagePosition, served>>

AwaitUpdatedRecordingPosition(results) ==
    /\ doWork("AWAIT_CURRENT_RECORDING_POSITION")
    /\ IF rm.activeCorrelationId = NULL_VALUE
       THEN /\ OfferRequest("getRecordingPosition", results, rm, inFlight)
            /\ UNCHANGED <<poller, stream, polled, answered, destinations, liveCalls>>
       ELSE LET r == ControlResponsePoller_poll(poller, stream)
                h == ReplayMerge_pollForResponse(r, rm.activeCorrelationId)
                pending == inFlight \ ResponseIds(r.consumed)
                m == [rm EXCEPT !.nextTargetPosition = r.poller.relevantId]
                addLive == m.image /\ shouldAddLiveDestination(m, imagePosition)
                stop == m.image /\ ~addLive /\ shouldStopAndRemoveReplay(m, imagePosition)
            IN
            /\ Polled(r)
            /\ CASE h.ret = "true" /\ m.nextTargetPosition = NULL_POSITION ->
                      /\ OfferRequest("getRecordingPosition", results, m, pending)
                      /\ UNCHANGED <<destinations, liveCalls>>
                 [] h.ret = "true" /\ m.nextTargetPosition # NULL_POSITION ->
                      /\ destinations' = IF addLive
                                         THEN destinations \cup {"liveDestination"}
                                         ELSE destinations
                      /\ liveCalls' = IF addLive THEN liveCalls + 1 ELSE liveCalls
                      /\ rm' = [m EXCEPT !.isLiveAdded = IF addLive THEN TRUE ELSE @,
                                         !.activeCorrelationId = NULL_VALUE,
                                         !.state = IF stop THEN "AWAIT_STOP_REPLAY"
                                                   ELSE "AWAIT_CATCH_UP"]
                      /\ inFlight' = pending
                      /\ UNCHANGED <<nextCorrelationId, sent>>
                 [] h.ret = "throw" ->
                      /\ rm' = Failed(rm)
                      /\ inFlight' = pending
                      /\ UNCHANGED <<nextCorrelationId, sent, destinations, liveCalls>>
                 [] OTHER ->
                      /\ inFlight' = pending
                      /\ UNCHANGED <<rm, nextCorrelationId, sent, destinations, liveCalls>>
    /\ UNCHANGED <<connected, now, serverSent, call, hasErrorHandler, furtherVars, handlerLog,
                   unrelatedErrors, lastCheck, listVars, pollVars, imagePosition, served>>

\* awaitStopReplay forgetting to remove the replay destination.
awaitStopReplay_KeepsDestination(m, d) ==
    [rm |-> [m EXCEPT !.isReplayActive = FALSE, !.replaySessionId = NULL_VALUE,
                      !.activeCorrelationId = NULL_VALUE, !.state = "MERGED"],
     destinations |-> d]

\* awaitStopReplay removing the live destination along with the replay one.
awaitStopReplay_RemovesBoth(m, d) ==
    [rm |-> [m EXCEPT !.isReplayActive = FALSE, !.replaySessionId = NULL_VALUE,
                      !.activeCorrelationId = NULL_VALUE, !.state = "MERGED"],
     destinations |-> d \ {"replayDestination", "liveDestination"}]

\* What awaitStopReplay does once the response to stopReplay has been polled.
awaitStopReplay_stopped(m, d) ==
    [rm |-> [m EXCEPT !.isReplayActive = FALSE, !.replaySessionId = NULL_VALUE,
                      !.activeCorrelationId = NULL_VALUE, !.state = "MERGED"],
     destinations |-> d \ {"replayDestination"}]

AwaitStopReplay(results) ==
    /\ doWork("AWAIT_STOP_REPLAY")
    /\ IF rm.activeCorrelationId = NULL_VALUE
       THEN /\ OfferRequest("stopReplay", results, rm, inFlight)
            /\ UNCHANGED <<poller, stream, polled, answered, destinations>>
       ELSE LET r == ControlResponsePoller_poll(poller, stream)
                h == ReplayMerge_pollForResponse(r, rm.activeCorrelationId)
                pending == inFlight \ ResponseIds(r.consumed)
                stopped == awaitStopReplay_stopped(rm, destinations)
            IN
            /\ Polled(r)
            /\ inFlight' = pending
            /\ rm' = CASE h.ret = "true" -> stopped.rm
                       [] h.ret = "throw" -> Failed(rm)
                       [] OTHER -> rm
            /\ destinations' = IF h.ret = "true" THEN stopped.destinations ELSE destinations
            /\ UNCHANGED <<nextCorrelationId, sent>>
    /\ UNCHANGED <<connected, now, serverSent, call, hasErrorHandler, furtherVars, handlerLog,
                   unrelatedErrors, lastCheck, listVars, pollVars, imagePosition, served,
                   liveCalls>>

\* ~ReplayMerge.  The condition of the outer if is State::CLOSED == m_state.
\* stopReplay is AeronArchive::stopReplay: results are the answers of the
\* publication to its offer, and an exception of the call leaves the
\* destructor before the destination is removed and the state set.
Destroy(results) ==
    /\ ~destroyed.ran
    /\ LET closing == "CLOSED" = rm.state
           stop == closing /\ rm.isReplayActive
           correlationId == nextCorrelationId
           o == ArchiveProxy_offer(results)
           exception == IF ~stop \/ o.ret = "true" THEN NoException
                        ELSE IF o.ret = "throw" THEN o.exception
                        ELSE ArchiveException(<<"failed to send stop replay request">>,
                                              GENERIC)
           remove == closing /\ exception = NoException /\ "MERGED" # rm.state
       IN
       /\ nextCorrelationId' = IF stop THEN nextCorrelationId + 1 ELSE nextCorrelationId
       /\ sent' = IF stop /\ o.ret = "true"
                  THEN Append(sent, [op |-> "stopReplay", correlationId |-> correlationId,
                                     controlSessionId |-> ControlSessionId])
                  ELSE sent
       /\ destinations' = IF remove THEN destinations \ {"replayDestination"}
                          ELSE destinations
       /\ rm' = [rm EXCEPT !.isReplayActive = IF stop THEN FALSE ELSE @,
                           !.state = IF closing /\ exception = NoException
                                     THEN "CLOSED" ELSE @]
       /\ destroyed' = [ran |-> TRUE, state |-> rm.state,
                        isReplayActive |-> rm.isReplayActive, stopReplay |-> stop,
                        requests |-> Len(sent') - Len(sent),
                        removed |-> destinations' # destinations,
                        exception |-> exception]
    /\ UNCHANGED <<stream, connected, now, serverSent, poller, polled, call,
                   hasErrorHandler, handlerLog, unrelatedErrors, lastCheck, listVars,
                   pollVars, imagePosition, inFlight, answered, served, offerVars,
                   connectVars, threadVars, clientVars, liveCalls>>

\* The replay image advances.
ImageAdvance ==
    /\ rm.image
    /\ imagePosition < MaxPosition
    /\ imagePosition' = imagePosition + 1
    /\ UNCHANGED <<stream, connected, now, nextCorrelationId, serverSent, poller, polled,
                   call, sent, hasErrorHandler, furtherVars, handlerLog, unrelatedErrors, lastCheck,
                   listVars, pollVars, rm, destinations, inFlight, answered, served,
                   liveCalls>>

\* The request op the archive answers with relevantId: a position for the
\* position requests, the replay session id for replay, nothing for stopReplay.
AnswersTo(op, relevantId, code) ==
    \/ code = "ERROR" /\ relevantId = 0
    \/ /\ code = "OK"
       /\ CASE op \in {"getRecordingPosition", "getStopPosition"} -> TRUE
            [] op = "replay" -> relevantId = MaxPosition
            [] OTHER -> relevantId = 0

\* The archive responds to a request it has not responded to yet.
ServerAnswer(correlationId, relevantId, code) ==
    /\ correlationId \in inFlight \ served
    /\ \E i \in 1..Len(sent) :
           sent[i].correlationId = correlationId /\ AnswersTo(sent[i].op, relevantId, code)
    /\ served' = served \cup {correlationId}
    /\ stream' = Append(stream, ControlResponse(ControlSessionId, correlationId, relevantId, code))
    /\ UNCHANGED <<connected, now, nextCorrelationId, serverSent, poller, polled, call, sent,
                   hasErrorHandler, furtherVars, handlerLog, unrelatedErrors, lastCheck, listVars,
                   pollVars, rm, destinations, imagePosition, inFlight, answered, liveCalls>>

MergeReplies == {NULL_POSITION} \cup 0..MaxPosition

\* Responses of the session to requests that are not ReplayMerge's.
MergeOthers == {ControlResponse(ControlSessionId, MaxMergeRequests + 1, 0, "OK")}

\* The replies of the archive: a position or a session id with OK, or an ERROR.
MergeAnswers == {<<relevantId, "OK">> : relevantId \in MergeReplies} \cup {<<0, "ERROR">>}

\* The offers of ReplayMerge: accepted, given up after the retries, or thrown.
MergeOfferResults ==
    {<<"POSITION">>, <<"NOT_CONNECTED">>,
     [i \in 1..DEFAULT_RETRY_ATTEMPTS |-> "BACK_PRESSURED"]}

NextMerge ==
    \/ \E results \in MergeOfferResults : AwaitInitialRecordingPosition(results)
    \/ \E results \in MergeOfferResults : AwaitReplay(results)
    \/ \E found \in BOOLEAN : AwaitCatchUp(found)
    \/ \E results \in MergeOfferResults : AwaitUpdatedRecordingPosition(results)
    \/ \E results \in MergeOfferResults : AwaitStopReplay(results)
    \/ \E results \in MergeOfferResults : Destroy(results)
    \/ ImageAdvance
    \/ \E correlationId \in 1..MaxMergeRequests, answer \in MergeAnswers :
           ServerAnswer(correlationId, answer[1], answer[2])
    \/ \E msg \in MergeOthers : ServerSend(msg)

SpecMerge == Init /\ [][NextMerge]_vars

(***************************************************************************)
(* ReplayMerge up to the catch-up, with an archive that may answer a       *)
(* request with any code of ControlResponseCode.                           *)
(***************************************************************************)
ControlResponseCode == {"OK", "ERROR", "RECORDING_UNKNOWN", "SUBSCRIPTION_UNKNOWN"}

\* The archive responds with code to a request it has not responded to yet.
ServerResponds(correlationId, relevantId, code) ==
    /\ correlationId \in inFlight \ served
    /\ served' = served \cup {correlationId}
    /\ stream' = Append(stream, ControlResponse(ControlSessionId, correlationId, relevantId, code))
    /\ UNCHANGED <<connected, now, nextCorrelationId, serverSent, poller, polled, call, sent,
                   hasErrorHandler, furtherVars, handlerLog, unrelatedErrors, lastCheck, listVars,
                   pollVars, rm, destinations, imagePosition, inFlight, answered, liveCalls>>

NextReplay ==
    \/ \E results \in MergeOfferResults : AwaitInitialRecordingPosition(results)
    \/ \E results \in MergeOfferResults : AwaitReplay(results)
    \/ \E found \in BOOLEAN : AwaitCatchUp(found)
    \/ \E correlationId \in 1..MaxMergeRequests, relevantId \in MergeReplies,
          code \in ControlResponseCode :
           ServerResponds(correlationId, relevantId, code)
    \/ \E msg \in MergeOthers : ServerSend(msg)

SpecReplay == Init /\ [][NextReplay]_vars

(***************************************************************************)
(* ReplayMerge with an archive that answers every request with OK and a    *)
(* publication that accepts an offer or is back-pressured through all its  *)
(* retries.  doWork is called again and again, a request that is offered   *)
(* again and again is accepted in the end, the archive answers, with a     *)
(* position in the end, the replay image appears and advances.             *)
(***************************************************************************)
HappyOfferResults ==
    {<<"POSITION">>, [i \in 1..DEFAULT_RETRY_ATTEMPTS |-> "BACK_PRESSURED"]}

NextHappy ==
    \/ \E results \in HappyOfferResults : AwaitInitialRecordingPosition(results)
    \/ \E results \in HappyOfferResults : AwaitReplay(results)
    \/ \E found \in BOOLEAN : AwaitCatchUp(found)
    \/ \E results \in HappyOfferResults : AwaitUpdatedRecordingPosition(results)
    \/ \E results \in HappyOfferResults : AwaitStopReplay(results)
    \/ ImageAdvance
    \/ \E correlationId \in 1..MaxMergeRequests, relevantId \in MergeReplies :
           ServerAnswer(correlationId, relevantId, "OK")

HappyFairness ==
    /\ SF_vars(AwaitInitialRecordingPosition(<<"POSITION">>))
    /\ SF_vars(AwaitReplay(<<"POSITION">>))
    /\ WF_vars(AwaitCatchUp(TRUE))
    /\ SF_vars(AwaitUpdatedRecordingPosition(<<"POSITION">>))
    /\ SF_vars(AwaitStopReplay(<<"POSITION">>))
    /\ WF_vars(ImageAdvance)
    /\ SF_vars(\E correlationId \in 1..MaxMergeRequests, relevantId \in 0..MaxPosition :
                   ServerAnswer(correlationId, relevantId, "OK"))

SpecHappy == Init /\ [][NextHappy]_vars /\ HappyFairness

(***************************************************************************)
(* ArchiveProxy, one publication.offer at a time.  proxy holds the locals  *)
(* of the operation (remainingAttempts, deadlineTs) and, for the           *)
(* properties, the answers the publication has given so far.               *)
(***************************************************************************)
\* The operations by the way they offer: every request but connect ends in
\* offer; connect in one of the two offerWithTimeout; tryConnect offers once.
OfferFlavours == {"offer", "offerWithTimeout", "offerWithTimeoutInvoker", "tryConnect"}

TimedFlavours == {"offerWithTimeout", "offerWithTimeoutInvoker"}

\* handleResult of the two offerWithTimeout: an empty lambda, never throws.
ArchiveProxy_offerWithTimeout_handleResult(result) == FALSE

\* The sentinel of offer with the decrement after the comparison.
offer_sentinel_PostDecrement(p) ==
    [proceed |-> p.remainingAttempts # 0,
     p |-> [p EXCEPT !.remainingAttempts = @ - 1]]

\* The sentinel of ArchiveProxy::offer: --remainingAttempts != 0.
ArchiveProxy_offer_sentinel(p) ==
    [proceed |-> p.remainingAttempts - 1 # 0,
     p |-> [p EXCEPT !.remainingAttempts = @ - 1]]

\* The sentinel of offerWithTimeout giving up at the deadline itself.
offerWithTimeout_sentinel_AtDeadline(p, t) ==
    [proceed |-> t < p.deadlineTs, p |-> [p EXCEPT !.sentinelTs = t]]

\* The sentinel of offerWithTimeout(length): now() <= deadlineTs.
ArchiveProxy_offerWithTimeout_sentinel(p, t) ==
    [proceed |-> t <= p.deadlineTs, p |-> [p EXCEPT !.sentinelTs = t]]

\* The sentinel of offerWithTimeout(length, aeronClientInvoker): false once
\* now() > deadlineTs, else it invokes the conductor.
ArchiveProxy_offerWithTimeout_invoker_sentinel(p, t) ==
    IF t > p.deadlineTs
    THEN [proceed |-> FALSE, p |-> [p EXCEPT !.sentinelTs = t]]
    ELSE [proceed |-> TRUE, p |-> [p EXCEPT !.sentinelTs = t, !.invokes = @ + 1]]

\* handleResult and sentinel as the flavour of p passes them to offerHelper;
\* t is the clock the sentinel reads.
handleResult(p, result) ==
    IF p.flavour = "offer" THEN ArchiveProxy_offer_handleResult(result)
    ELSE ArchiveProxy_offerWithTimeout_handleResult(result)

sentinel(p, t) ==
    CASE p.flavour = "offer" -> ArchiveProxy_offer_sentinel(p)
      [] p.flavour = "offerWithTimeout" -> ArchiveProxy_offerWithTimeout_sentinel(p, t)
      [] OTHER -> ArchiveProxy_offerWithTimeout_invoker_sentinel(p, t)

Thrown(p, what) ==
    [p EXCEPT !.pc = "thrown", !.exception = ArchiveException(what, GENERIC)]

\* offerHelper taking PUBLICATION_CLOSED and MAX_POSITION_EXCEEDED for
\* answers to try again after.
offerHelper_ClosedIsRetried(p, result, t) ==
    LET q == [p EXCEPT !.results = Append(@, result)] IN
    IF result = "POSITION"
    THEN [q EXCEPT !.pc = "returned", !.ret = TRUE]
    ELSE IF handleResult(q, result)
    THEN Thrown(q, <<"connection to the archive is no longer available">>)
    ELSE LET s == sentinel(q, t) IN
         IF ~s.proceed
         THEN [s.p EXCEPT !.pc = "returned", !.ret = FALSE]
         ELSE [s.p EXCEPT !.idles = @ + 1]

\* offerHelper returning only once the sentinel says so.
offerHelper_OffersAgain(p, result, t) ==
    LET q == [p EXCEPT !.results = Append(@, result)] IN
    IF result = "PUBLICATION_CLOSED"
    THEN Thrown(q, <<"connection to the archive has been closed">>)
    ELSE IF result = "MAX_POSITION_EXCEEDED"
    THEN Thrown(q, <<"offer failed due to max position being reached">>)
    ELSE IF result # "POSITION" /\ handleResult(q, result)
    THEN Thrown(q, <<"connection to the archive is no longer available">>)
    ELSE LET s == sentinel(q, t) IN
         IF ~s.proceed
         THEN [s.p EXCEPT !.pc = "returned", !.ret = (result = "POSITION")]
         ELSE [s.p EXCEPT !.idles = @ + 1]

\* One iteration of the loop of offerHelper: result is the answer of
\* publication.offer.
offerHelper_loop(p, result, t) ==
    LET q == [p EXCEPT !.results = Append(@, result)] IN
    IF result = "POSITION"
    THEN [q EXCEPT !.pc = "returned", !.ret = TRUE]
    ELSE IF result = "PUBLICATION_CLOSED"
    THEN Thrown(q, <<"connection to the archive has been closed">>)
    ELSE IF result = "MAX_POSITION_EXCEEDED"
    THEN Thrown(q, <<"offer failed due to max position being reached">>)
    ELSE IF handleResult(q, result)
    THEN Thrown(q, <<"connection to the archive is no longer available">>)
    ELSE LET s == sentinel(q, t) IN
         IF ~s.proceed
         THEN [s.p EXCEPT !.pc = "returned", !.ret = FALSE]
         ELSE [s.p EXCEPT !.idles = @ + 1]

\* tryConnect: one offer, accepted or not.
ArchiveProxy_tryConnect(p, result) ==
    [p EXCEPT !.results = Append(@, result), !.pc = "returned",
              !.ret = (result = "POSITION")]

\* An operation of the proxy has encoded its request and enters its offer:
\* offer copies m_retryAttempts, offerWithTimeout fixes its deadline.
ProxyRequest(flavour, retryAttempts, connectTimeout) ==
    /\ proxy.pc = "idle"
    /\ proxy' = [NoOffer EXCEPT !.pc = "offering", !.flavour = flavour,
                                !.retryAttempts = retryAttempts,
                                !.remainingAttempts =
                                    IF flavour = "offer" THEN retryAttempts ELSE 0,
                                !.connectTimeout = connectTimeout,
                                !.startTs = hrClock,
                                !.deadlineTs =
                                    IF flavour \in TimedFlavours
                                    THEN hrClock + connectTimeout ELSE 0]
    /\ UNCHANGED <<baseVars, destroyed, connectVars, threadVars, hrClock, clientVars>>

\* publication.offer answers result and the operation acts on it; elapsed is
\* the time that passes before the sentinel reads the clock.
PublicationOffer(result, elapsed) ==
    /\ proxy.pc = "offering"
    /\ hrClock + elapsed <= MaxHrClock
    /\ proxy.flavour \in TimedFlavours => Len(proxy.results) < MaxTimedAttempts
    /\ hrClock' = hrClock + elapsed
    /\ proxy' = IF proxy.flavour = "tryConnect"
                THEN ArchiveProxy_tryConnect(proxy, result)
                ELSE offerHelper_loop(proxy, result, hrClock')
    /\ UNCHANGED <<baseVars, destroyed, connectVars, threadVars, clientVars>>

\* The operation has returned or thrown.
ProxyEnd ==
    /\ proxy.pc \in {"returned", "thrown"}
    /\ proxy' = NoOffer
    /\ UNCHANGED <<baseVars, destroyed, connectVars, threadVars, hrClock, clientVars>>

NextOffer ==
    \/ \E flavour \in OfferFlavours, retryAttempts \in 1..MaxRetryAttempts,
          connectTimeout \in 0..MaxConnectTimeout :
           ProxyRequest(flavour, retryAttempts, connectTimeout)
    \/ \E result \in PublicationResults, elapsed \in 0..1 :
           PublicationOffer(result, elapsed)
    \/ ProxyEnd

SpecOffer == Init /\ [][NextOffer]_vars

(***************************************************************************)
(* AsyncConnect.  driver.sub and driver.pub say how far Aeron is with the  *)
(* response subscription and the request publication: "pending" (find...   *)
(* returns null), "found" or "connected".                                  *)
(***************************************************************************)
ResponseCodes == {"OK", "ERROR", "RECORDING_UNKNOWN"}

\* AsyncConnect::poll taking any complete ControlResponse for the answer.
poll_AnyCorrelation(a, r) ==
    IF r.exception # NoException
    THEN [ret |-> "throw", exception |-> r.exception]
    ELSE IF r.poller.pollComplete /\ isControlResponse(r.poller)
    THEN IF ~isCodeOk(r.poller)
         THEN IF isCodeError(r.poller)
              THEN [ret |-> "throw",
                    exception |-> ArchiveException(<<"error: ", r.poller.errorMessage>>,
                                                   r.poller.relevantId)]
              ELSE [ret |-> "throw",
                    exception |-> ArchiveException(
                        <<"unexpected response: code=", r.poller.code>>, GENERIC)]
         ELSE [ret |-> "true", exception |-> NoException]
    ELSE [ret |-> "false", exception |-> NoException]

\* AsyncConnect::poll raising for ERROR only.
poll_OnlyErrorRaises(a, r) ==
    IF r.exception # NoException
    THEN [ret |-> "throw", exception |-> r.exception]
    ELSE IF r.poller.pollComplete /\ r.poller.correlationId = a.correlationId
            /\ isControlResponse(r.poller)
    THEN IF isCodeError(r.poller)
         THEN [ret |-> "throw",
               exception |-> ArchiveException(<<"error: ", r.poller.errorMessage>>,
                                              r.poller.relevantId)]
         ELSE [ret |-> "true", exception |-> NoException]
    ELSE [ret |-> "false", exception |-> NoException]

\* The last part of AsyncConnect::poll, once the poller and the proxy are
\* ready: r is the result of poller.poll().
AsyncConnect_poll_response(a, r) ==
    IF r.exception # NoException
    THEN [ret |-> "throw", exception |-> r.exception]
    ELSE IF r.poller.pollComplete /\ r.poller.correlationId = a.correlationId
            /\ isControlResponse(r.poller)
    THEN IF ~isCodeOk(r.poller)
         THEN IF isCodeError(r.poller)
              THEN [ret |-> "throw",
                    exception |-> ArchiveException(<<"error: ", r.poller.errorMessage>>,
                                                   r.poller.relevantId)]
              ELSE [ret |-> "throw",
                    exception |-> ArchiveException(
                        <<"unexpected response: code=", r.poller.code>>, GENERIC)]
         ELSE [ret |-> "true", exception |-> NoException]
    ELSE [ret |-> "false", exception |-> NoException]

\* The first part of poll: find the subscription, construct the poller (its
\* m_code being whatever the memory holds) and see whether it is connected.
AsyncConnect_poll_subscription(a, d, code) ==
    IF a.controlResponsePollerReady THEN a
    ELSE IF ~a.subscription
    THEN IF d.sub # "pending"
         THEN [a EXCEPT !.subscription = TRUE, !.poller = NewPoller(code),
                        !.controlResponsePollerReady = (d.sub = "connected")]
         ELSE a
    ELSE IF d.sub = "connected"
    THEN [a EXCEPT !.controlResponsePollerReady = TRUE]
    ELSE a

\* The second part of poll taking a new correlation id for a retried connect.
AsyncConnect_poll_publication_Reallocates(a, d, result) ==
    LET accepted == ArchiveProxy_tryConnect(NoOffer, result).ret
        again == [ac |-> [a EXCEPT !.publication = TRUE,
                                   !.correlationId = d.nextCorrelationId,
                                   !.archiveProxyReady = accepted],
                  allocated |-> TRUE, offered |-> TRUE]
    IN
    IF a.archiveProxyReady
    THEN [ac |-> a, allocated |-> FALSE, offered |-> FALSE]
    ELSE IF d.pub = "connected"
    THEN again
    ELSE [ac |-> [a EXCEPT !.publication = (d.pub # "pending")],
          allocated |-> FALSE, offered |-> FALSE]

\* The second part of poll: find the publication, construct the proxy,
\* allocate the correlation id and try the connect request, whose offer the
\* publication answers with result.  offered says whether tryConnect ran.
AsyncConnect_poll_publication(a, d, result) ==
    LET accepted == ArchiveProxy_tryConnect(NoOffer, result).ret
        first == [ac |-> [a EXCEPT !.publication = TRUE,
                                   !.correlationId = d.nextCorrelationId,
                                   !.archiveProxyReady = accepted],
                  allocated |-> TRUE, offered |-> TRUE]
    IN
    IF a.archiveProxyReady
    THEN [ac |-> a, allocated |-> FALSE, offered |-> FALSE]
    ELSE IF a.correlationId = NULL_VALUE
    THEN IF ~a.publication
         THEN IF d.pub # "pending"
              THEN IF d.pub = "connected"
                   THEN first
                   ELSE [ac |-> [a EXCEPT !.publication = TRUE],
                         allocated |-> FALSE, offered |-> FALSE]
              ELSE [ac |-> a, allocated |-> FALSE, offered |-> FALSE]
         ELSE IF d.pub = "connected"
         THEN first
         ELSE [ac |-> a, allocated |-> FALSE, offered |-> FALSE]
    ELSE [ac |-> [a EXCEPT !.archiveProxyReady = accepted],
          allocated |-> FALSE, offered |-> TRUE]

\* AsyncConnect::poll.
AsyncConnectPoll(result, code) ==
    /\ archive = NoArchive
    /\ LET a1 == AsyncConnect_poll_subscription(ac, driver, code)
           pub == AsyncConnect_poll_publication(a1, driver, result)
           a2 == pub.ac
           ready == a2.controlResponsePollerReady /\ a2.archiveProxyReady
           r == ControlResponsePoller_poll(a2.poller, acStream)
           h == IF ready THEN AsyncConnect_poll_response(a2, r)
                ELSE [ret |-> "false", exception |-> NoException]
           accepted == pub.offered /\ a2.archiveProxyReady
       IN
       /\ ac' = IF ready THEN [a2 EXCEPT !.poller = r.poller] ELSE a2
       /\ acStream' = IF ready THEN r.rest ELSE acStream
       /\ driver' = [driver EXCEPT
                         !.nextCorrelationId = IF pub.allocated THEN @ + 1 ELSE @]
       /\ acLog' = [acLog EXCEPT
                        !.ret = h.ret,
                        !.exception = h.exception,
                        !.consumed = IF ready THEN r.consumed ELSE <<>>,
                        !.connected = (driver.sub = "connected"),
                        !.accepted = IF accepted THEN @ + 1 ELSE @,
                        !.completed = @ \/ h.ret = "true",
                        !.response = IF h.ret = "true" /\ ~acLog.completed
                                     THEN r.consumed[Len(r.consumed)] ELSE @,
                        !.repolled = acLog.completed,
                        !.sentAfter = @ \/ (acLog.completed /\ pub.offered),
                        !.raisedAfter = @ \/ (acLog.completed /\ h.ret = "throw")]
    /\ UNCHANGED <<baseVars, destroyed, offerVars, threadVars, archive, clientVars>>

\* What makeArchive asserts.
AsyncConnect_makeArchive_assert(a) ==
    /\ a.controlResponsePollerReady
    /\ a.archiveProxyReady
    /\ a.poller.pollComplete
    /\ a.poller.correlationId = a.correlationId
    /\ isControlResponse(a.poller)
    /\ isCodeOk(a.poller)

\* AsyncConnect::makeArchive, called once poll has returned true.  Where the
\* assertion does not hold the call is undefined: a build with assertions
\* aborts, one without constructs the client from what the poller holds.
AsyncConnect_makeArchive(a, ndebug) ==
    IF AsyncConnect_makeArchive_assert(a) \/ ndebug
    THEN [made |-> "made", controlSessionId |-> a.poller.controlSessionId]
    ELSE [made |-> "aborted", controlSessionId |-> NULL_VALUE]

MakeArchive(ndebug) ==
    /\ archive = NoArchive
    /\ acLog.completed
    /\ archive' = AsyncConnect_makeArchive(ac, ndebug)
    /\ UNCHANGED <<baseVars, destroyed, offerVars, threadVars, ac, driver, acStream,
                   acLog, clientVars>>

\* Aeron makes progress with the subscription or the publication.
DriverProgress(which) ==
    /\ driver[which] # "connected"
    /\ driver' = [driver EXCEPT ![which] = IF @ = "pending" THEN "found"
                                           ELSE "connected"]
    /\ UNCHANGED <<baseVars, destroyed, offerVars, threadVars, ac, acStream, acLog,
                   archive, clientVars>>

\* The image of the response stream goes away, and what was unread with it.
SubscriptionDisconnect ==
    /\ driver.sub = "connected"
    /\ archive = NoArchive
    /\ driver' = [driver EXCEPT !.sub = "found"]
    /\ acStream' = <<>>
    /\ UNCHANGED <<baseVars, destroyed, offerVars, threadVars, ac, acLog, archive, clientVars>>

\* What may arrive on the response stream of a connecting client.
ConnectMessages ==
    {ControlResponse(ControlSessionId, c, x[1], x[2]) :
        c \in 1..2,
        x \in {<<0, "OK">>, <<5, "ERROR">>, <<0, "RECORDING_UNKNOWN">>}}
    \cup {Msg(sbeSchemaId, "RecordingDescriptor", ControlSessionId, 1, 0, "OK", "", 0),
          Msg(otherSchemaId, "ControlResponse", ControlSessionId, 1, 0, "OK", "", 0)}

ArchiveRespond(msg) ==
    /\ driver.sub = "connected"
    /\ archive = NoArchive
    /\ serverSent < MaxConnectMessages
    /\ serverSent' = serverSent + 1
    /\ acStream' = Append(acStream, msg)
    /\ UNCHANGED <<stream, connected, now, nextCorrelationId, poller, polled, call, sent,
                   hasErrorHandler, handlerLog, unrelatedErrors, lastCheck, listVars,
                   pollVars, mergeVars, destroyed, offerVars, threadVars, ac, driver, acLog,
                   archive, clientVars>>

NextConnect ==
    \/ \E result \in {"POSITION", "BACK_PRESSURED", "NOT_CONNECTED"},
          code \in ResponseCodes : AsyncConnectPoll(result, code)
    \/ \E ndebug \in BOOLEAN : MakeArchive(ndebug)
    \/ \E which \in {"sub", "pub"} : DriverProgress(which)
    \/ SubscriptionDisconnect
    \/ \E msg \in ConnectMessages : ArchiveRespond(msg)

SpecConnect == Init /\ [][NextConnect]_vars

(***************************************************************************)
(* Threads.  Two threads call AeronArchive::startRecording, which holds    *)
(* m_mutex from its first statement to its return; a third drives          *)
(* ReplayMerge::awaitInitialRecordingPosition, which sends through         *)
(* archive.archiveProxy() and polls archive.controlResponsePoller()        *)
(* without it.  A request is encoded into the scratch buffer of the proxy  *)
(* in one step and offered in a later one: what is offered is what the     *)
(* buffer holds by then.                                                   *)
(***************************************************************************)
\* The thread is between the allocation of a correlation id and the end of
\* the request it is for.
InCall(a) ==
    \/ th[a].pc \in {"encoding", "pollForResponse"}
    \/ a = MergeThread /\ th[a].activeCorrelationId # NULL_VALUE

\* The frames after thread a has sent or polled on the session: the calls of
\* the other threads have been interleaved with.
Touch(a) ==
    [b \in Agents |-> IF b # a /\ InCall(b)
                      THEN [th[b] EXCEPT !.interleaved = TRUE] ELSE th[b]]

Request(op, correlationId) ==
    [op |-> op, correlationId |-> correlationId, controlSessionId |-> ControlSessionId]

\* std::lock_guard guard(m_mutex) of startRecording: the thread goes on once
\* the mutex is free.
Lock(t) ==
    /\ th[t].pc = "out"
    /\ mutex = "free"
    /\ nextCorrelationId <= MaxThreadRequests
    /\ mutex' = t
    /\ th' = [th EXCEPT ![t].pc = "locked", ![t].op = "startRecording"]
    /\ UNCHANGED <<baseVars, destroyed, offerVars, connectVars, buffer, replied, clientVars>>

\* startRecording allocates the correlation id and the proxy encodes the
\* request into m_buffer.
Encode(t) ==
    /\ th[t].pc = "locked"
    /\ nextCorrelationId' = nextCorrelationId + 1
    /\ buffer' = Request(th[t].op, nextCorrelationId)
    /\ th' = [th EXCEPT ![t].pc = "encoding", ![t].correlationId = nextCorrelationId]
    /\ UNCHANGED <<stream, connected, now, serverSent, poller, polled, call, sent,
                   hasErrorHandler, handlerLog, unrelatedErrors, lastCheck, listVars,
                   pollVars, mergeVars, destroyed, offerVars, connectVars, mutex,
                   replied, clientVars>>

\* The proxy offers m_buffer; startRecording throws when it is not accepted.
Offer(t, results) ==
    /\ th[t].pc = "encoding"
    /\ LET o == ArchiveProxy_offer(results) IN
       /\ sent' = IF o.ret = "true" THEN Append(sent, buffer) ELSE sent
       /\ th' = [Touch(t) EXCEPT ![t].pc = IF o.ret = "true" THEN "pollForResponse"
                                            ELSE "thrown"]
    /\ UNCHANGED <<stream, connected, now, nextCorrelationId, serverSent, poller, polled,
                   call, hasErrorHandler, handlerLog, unrelatedErrors, lastCheck, listVars,
                   pollVars, mergeVars, destroyed, offerVars, connectVars, mutex, buffer,
                   replied, clientVars>>

\* One poll of pollForResponse in thread t.
ThreadPoll(t) ==
    /\ th[t].pc = "pollForResponse"
    /\ LET r == ControlResponsePoller_poll(poller, stream)
           n == pollNextResponse(th[t].correlationId, now + MessageTimeout, r)
           b == AeronArchive_pollForResponse(th[t].correlationId, r.poller)
       IN
       /\ poller' = r.poller
       /\ stream' = r.rest
       /\ answered' = answered \cup ResponseIds(r.consumed)
       /\ handlerLog' = IF n.next = "break" /\ b.handled # NoException
                        THEN Append(handlerLog, b.handled) ELSE handlerLog
       /\ th' = [Touch(t) EXCEPT ![t].pc =
                     CASE n.next = "throw" -> "thrown"
                       [] n.next = "break" /\ b.next = "throw" -> "thrown"
                       [] n.next = "break" /\ b.next = "return" -> "returned"
                       [] OTHER -> "pollForResponse"]
    /\ UNCHANGED <<connected, now, nextCorrelationId, serverSent, polled, call, sent,
                   hasErrorHandler, unrelatedErrors, lastCheck, listVars, pollVars, rm,
                   destinations, imagePosition, inFlight, served, destroyed, offerVars,
                   connectVars, mutex, buffer, replied, clientVars, liveCalls>>

\* startRecording returns or throws: the lock_guard releases the mutex.
Unlock(t) ==
    /\ th[t].pc \in {"returned", "thrown"}
    /\ mutex' = "free"
    /\ th' = [th EXCEPT ![t] = NoFrame]
    /\ UNCHANGED <<baseVars, destroyed, offerVars, connectVars, buffer, replied, clientVars>>

\* awaitInitialRecordingPosition with no request active, and its follow-up
\* after a NULL_POSITION reply, allocate a correlation id and have the proxy
\* encode the request.
MergeEncode ==
    /\ th[MergeThread].pc = "out"
    /\ th[MergeThread].op = "none"
    /\ th[MergeThread].activeCorrelationId = NULL_VALUE
    /\ nextCorrelationId <= MaxThreadRequests
    /\ nextCorrelationId' = nextCorrelationId + 1
    /\ buffer' = Request("getRecordingPosition", nextCorrelationId)
    /\ th' = [th EXCEPT ![MergeThread].pc = "encoding",
                        ![MergeThread].correlationId = nextCorrelationId]
    /\ UNCHANGED <<stream, connected, now, serverSent, poller, polled, call, sent,
                   hasErrorHandler, handlerLog, unrelatedErrors, lastCheck, listVars,
                   pollVars, mergeVars, destroyed, offerVars, connectVars, mutex,
                   replied, clientVars>>

\* The proxy offers m_buffer for ReplayMerge: accepted, the correlation id
\* becomes the active one; an exception puts the machine in FAILED.
MergeOffer(results) ==
    /\ th[MergeThread].pc = "encoding"
    /\ LET o == ArchiveProxy_offer(results)
           m == MergeThread
       IN
       /\ sent' = IF o.ret = "true" THEN Append(sent, buffer) ELSE sent
       /\ th' = [Touch(m) EXCEPT
                     ![m].pc = "out",
                     ![m].op = IF o.ret = "throw" THEN "FAILED" ELSE th[m].op,
                     ![m].activeCorrelationId =
                         IF o.ret = "true" THEN th[m].correlationId ELSE @]
    /\ UNCHANGED <<stream, connected, now, nextCorrelationId, serverSent, poller, polled,
                   call, hasErrorHandler, handlerLog, unrelatedErrors, lastCheck, listVars,
                   pollVars, mergeVars, destroyed, offerVars, connectVars, mutex, buffer,
                   replied, clientVars>>

\* awaitInitialRecordingPosition with a request active: one poll.  A position
\* ends the state; NULL_POSITION has getStopPosition encoded under a new
\* correlation id.
MergePoll ==
    /\ th[MergeThread].pc = "out"
    /\ th[MergeThread].op \notin {"FAILED", "AWAIT_REPLAY"}
    /\ th[MergeThread].activeCorrelationId # NULL_VALUE
    /\ LET m == MergeThread
           r == ControlResponsePoller_poll(poller, stream)
           h == ReplayMerge_pollForResponse(r, th[m].activeCorrelationId)
           again == h.ret = "true" /\ r.poller.relevantId = NULL_POSITION
       IN
       /\ again => nextCorrelationId <= MaxThreadRequests
       /\ poller' = r.poller
       /\ stream' = r.rest
       /\ answered' = answered \cup ResponseIds(r.consumed)
       /\ nextCorrelationId' = IF again THEN nextCorrelationId + 1 ELSE nextCorrelationId
       /\ buffer' = IF again THEN Request("getStopPosition", nextCorrelationId)
                    ELSE buffer
       /\ th' = CASE again ->
                       [Touch(m) EXCEPT ![m].pc = "encoding", ![m].op = "getStopPosition",
                                        ![m].correlationId = nextCorrelationId]
                  [] h.ret = "true" /\ ~again ->
                       [Touch(m) EXCEPT ![m].op = "AWAIT_REPLAY",
                                        ![m].activeCorrelationId = NULL_VALUE]
                  [] h.ret = "throw" -> [Touch(m) EXCEPT ![m].op = "FAILED"]
                  [] OTHER -> Touch(m)
    /\ UNCHANGED <<connected, now, serverSent, polled, call, sent, hasErrorHandler,
                   handlerLog, unrelatedErrors, lastCheck, listVars, pollVars, rm,
                   destinations, imagePosition, inFlight, served, destroyed, offerVars,
                   connectVars, mutex, replied, clientVars, liveCalls>>

\* The archive answers the requests in the order they were sent.
ArchiveAnswer(relevantId) ==
    /\ replied < Len(sent)
    /\ replied' = replied + 1
    /\ stream' = Append(stream, ControlResponse(ControlSessionId,
                                                sent[replied + 1].correlationId,
                                                relevantId, "OK"))
    /\ UNCHANGED <<connected, now, nextCorrelationId, serverSent, poller, polled, call,
                   sent, hasErrorHandler, handlerLog, unrelatedErrors, lastCheck, listVars,
                   pollVars, mergeVars, destroyed, offerVars, connectVars, mutex, th,
                   buffer, clientVars>>

NextThreads ==
    \/ \E t \in ArchiveThreads : Lock(t)
    \/ \E t \in ArchiveThreads : Encode(t)
    \/ \E t \in ArchiveThreads, results \in MergeOfferResults : Offer(t, results)
    \/ \E t \in ArchiveThreads : ThreadPoll(t)
    \/ \E t \in ArchiveThreads : Unlock(t)
    \/ MergeEncode
    \/ \E results \in MergeOfferResults : MergeOffer(results)
    \/ MergePoll
    \/ \E relevantId \in {NULL_POSITION, 0} : ArchiveAnswer(relevantId)

SpecThreads == Init /\ [][NextThreads]_vars

(***************************************************************************)
(* ControlResponsePoller::poll, called on its own as by                    *)
(* archive.controlResponsePoller().poll().                                 *)
(***************************************************************************)
Poll ==
    /\ call.pc = "idle"
    /\ LET r == ControlResponsePoller_poll(poller, stream) IN
       /\ poller' = r.poller
       /\ stream' = r.rest
       /\ polled' = r.consumed
       /\ pollLog' = [ran |-> TRUE, before |-> poller, consumed |-> r.consumed,
                      fragments |-> r.fragments, exception |-> r.exception]
    /\ UNCHANGED <<connected, now, nextCorrelationId, serverSent, call, sent,
                   hasErrorHandler, handlerLog, unrelatedErrors, lastCheck, listVars,
                   elsewhere, destroyed, offerVars, connectVars, threadVars, closeLog,
                   recordVars, errLog, transportVars, counterVars, assemblerVars>>

NextPoll ==
    \/ Poll
    \/ \E msg \in PollerMessages : ServerSend(msg)

SpecPoll == Init /\ [][NextPoll]_vars

(***************************************************************************)
(* ~AeronArchive.  The destructor waits for the mutex, which a call in     *)
(* progress holds until it returns or throws; an exception of closeSession *)
(* leaves the destructor.                                                  *)
(***************************************************************************)
\* The request ArchiveProxy::closeSession encodes.
CloseSessionRequest(controlSessionId) ==
    [op |-> "closeSession", correlationId |-> NULL_VALUE,
     controlSessionId |-> controlSessionId]

DestroyArchive(results) ==
    /\ ~closeLog.ran
    /\ call.pc = "idle"
    /\ LET o == ArchiveProxy_offer(results) IN
       /\ sent' = IF o.ret = "true"
                  THEN Append(sent, CloseSessionRequest(ControlSessionId)) ELSE sent
       /\ closeLog' = [ran |-> TRUE, mutex |-> "held", attempts |-> o.attempts,
                       ret |-> o.ret, exception |-> o.exception]
    /\ UNCHANGED <<stream, connected, now, nextCorrelationId, serverSent, poller, polled,
                   call, hasErrorHandler, handlerLog, unrelatedErrors, lastCheck, listVars,
                   elsewhere, destroyed, offerVars, connectVars, threadVars, pollLog,
                   recordVars, errLog, transportVars, counterVars, assemblerVars>>

\* The AeronArchive exists: its calls can be made.
Alive == ~closeLog.ran

NextClose ==
    \/ Alive /\ \E op \in SyncOps, results \in OfferResults : SyncRequest(op, results)
    \/ Alive /\ PollForResponse
    \/ Alive /\ CallEnd
    \/ Alive /\ \E msg \in SyncMessages : ServerSend(msg)
    \/ Alive /\ Tick
    \/ \E results \in OfferResults : DestroyArchive(results)

SpecClose == Init /\ [][NextClose]_vars

(***************************************************************************)
(* Recorded publications: addRecordedPublication,                          *)
(* addRecordedExclusivePublication and the forms of stopRecording.  A      *)
(* channel URI is a sequence of pieces: '?' and '|' are pieces of their    *)
(* own, every other piece is a run of characters without either.           *)
(***************************************************************************)
Channels ==
    {<<"aeron:ipc">>,
     <<"aeron:udp", "?", "endpoint=localhost:40123">>,
     <<"aeron:udp", "?", "endpoint=localhost:40123", "|", "term-length=64k">>}

StreamIds == {10, 11}

SessionIds == {-7, 42}

PublicationKinds == {"Publication", "ExclusivePublication"}

Digit(d) == <<"0", "1", "2", "3", "4", "5", "6", "7", "8", "9">>[d + 1]

RECURSIVE Digits(_)
Digits(n) == IF n < 10 THEN <<Digit(n)>> ELSE Append(Digits(n \div 10), Digit(n % 10))

\* std::to_string of an int32.
to_string(n) == IF n < 0 THEN <<"-">> \o Digits(-n) ELSE Digits(n)

\* channelUri.find('?') == channelUri.npos
NoQuestionMark(channelUri) == \A i \in 1..Len(channelUri) : channelUri[i] # "?"

\* addSessionId always starting the parameters with '?'.
addSessionId_AlwaysQuestionMark(channelUri, sessionId) ==
    channelUri \o <<"?", "session-id", "=">> \o to_string(sessionId)

addSessionId(channelUri, sessionId) ==
    channelUri \o <<IF NoQuestionMark(channelUri) THEN "?" ELSE "|">>
               \o <<"session-id", "=">> \o to_string(sessionId)

\* What ArchiveProxy::startRecording and stopRecording encode.
StartRecordingRequest(channel, streamId, sourceLocation, correlationId, controlSessionId) ==
    [op |-> "startRecording", controlSessionId |-> controlSessionId,
     correlationId |-> correlationId, streamId |-> streamId,
     sourceLocation |-> sourceLocation, channel |-> channel]

StopRecordingRequest(channel, streamId, correlationId, controlSessionId) ==
    [op |-> "stopRecording", controlSessionId |-> controlSessionId,
     correlationId |-> correlationId, streamId |-> streamId,
     sourceLocation |-> "none", channel |-> channel]

\* A request method of AeronArchive up to its pollForResponse: the requests
\* sent and the call after the proxy has offered request, sentBefore and t
\* being the requests sent so far and the clock.
AeronArchive_request(request, failure, results, sentBefore, t) ==
    LET o == ArchiveProxy_offer(results) IN
    IF o.ret = "true"
    THEN [sent |-> Append(sentBefore, request),
          call |-> [Idle EXCEPT !.pc = "pollForResponse", !.op = request.op,
                                !.correlationId = request.correlationId,
                                !.deadlineTs = t + MessageTimeout, !.startTs = t]]
    ELSE [sent |-> sentBefore,
          call |-> [Idle EXCEPT !.pc = "thrown", !.op = request.op,
                                !.correlationId = request.correlationId,
                                !.exception = IF o.ret = "throw" THEN o.exception
                                              ELSE ArchiveException(failure, GENERIC)]]

AeronArchive_startRecording(channel, streamId, sourceLocation, correlationId, results, sentBefore, t) ==
    AeronArchive_request(
        StartRecordingRequest(channel, streamId, sourceLocation, correlationId,
                              ControlSessionId),
        <<"failed to send start recording request">>, results, sentBefore, t)

AeronArchive_stopRecording(channel, streamId, correlationId, results, sentBefore, t) ==
    AeronArchive_request(
        StopRecordingRequest(channel, streamId, correlationId, ControlSessionId),
        <<"failed to send stop recording request">>, results, sentBefore, t)

\* stopRecording(publication) stopping the channel of the publication as it is.
stopRecording_publication_PlainChannel(publication, correlationId, results, sentBefore, t) ==
    AeronArchive_stopRecording(publication.channel, publication.streamId, correlationId,
                               results, sentBefore, t)

AeronArchive_stopRecording_publication(publication, correlationId, results, sentBefore, t) ==
    AeronArchive_stopRecording(addSessionId(publication.channel, publication.sessionId),
                               publication.streamId, correlationId, results,
                               sentBefore, t)

\* addRecordedPublication and addRecordedExclusivePublication: the publication
\* is asked of Aeron.
AddRecordedPublication(kind, channel, streamId) ==
    /\ rec.pc = "idle"
    /\ rec' = [NoRecording EXCEPT !.pc = "findPublication", !.kind = kind,
                                  !.channel = channel, !.streamId = streamId]
    /\ UNCHANGED <<baseVars, destroyed, offerVars, connectVars, threadVars, pollLog,
                   closeLog, aeronPub, stopLog, errLog, transportVars, counterVars,
                   assemblerVars>>

\* The driver registers the publication under a session id; it is not the
\* original one when the client had added the same publication before.
DriverRegisters(sessionId, original) ==
    /\ rec.pc = "findPublication"
    /\ ~aeronPub.registered
    /\ aeronPub' = [registered |-> TRUE, kind |-> rec.kind, channel |-> rec.channel,
                    streamId |-> rec.streamId, sessionId |-> sessionId,
                    original |-> original]
    /\ UNCHANGED <<baseVars, destroyed, offerVars, connectVars, threadVars, pollLog,
                   closeLog, rec, stopLog, errLog, transportVars, counterVars,
                   assemblerVars>>

\* One findPublication and what follows it: idle and look again, throw when
\* the publication is not original, go on to startRecording.
FindPublication ==
    /\ rec.pc = "findPublication"
    /\ ~aeronPub.registered => rec.idles < MaxIdles
    /\ rec' = IF ~aeronPub.registered
              THEN [rec EXCEPT !.idles = @ + 1]
              ELSE IF ~aeronPub.original
              THEN [rec EXCEPT !.pc = "thrown",
                               !.exception =
                                   ArchiveException(
                                       <<"publication already added for channel=",
                                         rec.channel, " streamId=",
                                         to_string(rec.streamId)>>, GENERIC)]
              ELSE [rec EXCEPT !.pc = "startRecording"]
    /\ UNCHANGED <<baseVars, destroyed, offerVars, connectVars, threadVars, pollLog,
                   closeLog, aeronPub, stopLog, errLog, transportVars, counterVars,
                   assemblerVars>>

\* startRecording of the session-scoped channel, up to its wait.
StartRecording(results) ==
    /\ rec.pc = "startRecording"
    /\ call.pc = "idle"
    /\ now + MessageTimeout < MaxClock
    /\ LET a == AeronArchive_startRecording(
                    addSessionId(rec.channel, aeronPub.sessionId), rec.streamId, "LOCAL",
                    nextCorrelationId, results, sent, now)
       IN
       /\ nextCorrelationId' = nextCorrelationId + 1
       /\ sent' = a.sent
       /\ call' = a.call
    /\ rec' = [rec EXCEPT !.pc = "awaiting"]
    /\ UNCHANGED <<stream, connected, now, serverSent, poller, polled, hasErrorHandler,
                   handlerLog, unrelatedErrors, lastCheck, listVars, elsewhere, destroyed,
                   offerVars, connectVars, threadVars, pollLog, closeLog, aeronPub,
                   stopLog, errLog, transportVars, counterVars, assemblerVars>>

\* startRecording has returned or thrown: so does addRecordedPublication.
RecordedEnd ==
    /\ rec.pc = "awaiting"
    /\ call.pc \in {"returned", "thrown"}
    /\ rec' = [rec EXCEPT !.pc = call.pc, !.exception = call.exception]
    /\ call' = Idle
    /\ UNCHANGED <<stream, connected, now, nextCorrelationId, serverSent, poller, polled,
                   sent, hasErrorHandler, handlerLog, unrelatedErrors, lastCheck, listVars,
                   elsewhere, destroyed, offerVars, connectVars, threadVars, pollLog,
                   closeLog, aeronPub, stopLog, errLog, transportVars, counterVars,
                   assemblerVars>>

\* stopRecording, up to its wait, for the publication addRecordedPublication
\* has returned (channel and streamId are then not looked at) or for a
\* channel and a stream id.
StopRecording(form, channel, streamId, results) ==
    /\ rec.pc = "returned"
    /\ call.pc = "idle"
    /\ ~stopLog.ran
    /\ nextCorrelationId <= MaxRecordingCalls
    /\ now + MessageTimeout < MaxClock
    /\ form = "publication" => channel = aeronPub.channel /\ streamId = aeronPub.streamId
    /\ LET a == IF form = "publication"
                THEN AeronArchive_stopRecording_publication(
                         aeronPub, nextCorrelationId, results, sent, now)
                ELSE AeronArchive_stopRecording(
                         channel, streamId, nextCorrelationId, results, sent, now)
       IN
       /\ nextCorrelationId' = nextCorrelationId + 1
       /\ sent' = a.sent
       /\ call' = a.call
       /\ stopLog' = [NoStop EXCEPT !.ran = TRUE, !.form = form, !.channel = channel,
                                    !.streamId = streamId,
                                    !.correlationId = nextCorrelationId,
                                    !.results = results, !.sentBefore = sent,
                                    !.now = now, !.sentAfter = a.sent,
                                    !.callAfter = a.call]
    /\ UNCHANGED <<stream, connected, now, serverSent, poller, polled, hasErrorHandler,
                   handlerLog, unrelatedErrors, lastCheck, listVars, elsewhere, destroyed,
                   offerVars, connectVars, threadVars, pollLog, closeLog, aeronPub, rec,
                   errLog, transportVars, counterVars, assemblerVars>>

\* stopRecording has returned or thrown.
StopEnd ==
    /\ stopLog.ran
    /\ stopLog.outcome = "none"
    /\ call.pc \in {"returned", "thrown"}
    /\ stopLog' = [stopLog EXCEPT !.outcome = call.pc, !.exception = call.exception]
    /\ call' = Idle
    /\ UNCHANGED <<stream, connected, now, nextCorrelationId, serverSent, poller, polled,
                   sent, hasErrorHandler, handlerLog, unrelatedErrors, lastCheck, listVars,
                   elsewhere, destroyed, offerVars, connectVars, threadVars, pollLog,
                   closeLog, aeronPub, rec, errLog, transportVars, counterVars,
                   assemblerVars>>

\* The channels stopRecording(channel, streamId) is called with: the one of
\* the publication, as it is and with its session id.
StopChannels ==
    {aeronPub.channel, addSessionId(aeronPub.channel, aeronPub.sessionId)}

\* The responses of the archive to the two requests.
RecordingMessages ==
    {ControlResponse(ControlSessionId, c, x[1], x[2]) :
        c \in 1..MaxRecordingCalls, x \in {<<0, "OK">>, <<5, "ERROR">>}}

NextRecord ==
    \/ \E kind \in PublicationKinds, channel \in Channels, streamId \in StreamIds :
           AddRecordedPublication(kind, channel, streamId)
    \/ \E sessionId \in SessionIds, original \in BOOLEAN :
           DriverRegisters(sessionId, original)
    \/ FindPublication
    \/ \E results \in MergeOfferResults : StartRecording(results)
    \/ RecordedEnd
    \/ \E form \in {"publication", "channel"}, channel \in StopChannels,
          streamId \in StreamIds, results \in MergeOfferResults :
           StopRecording(form, channel, streamId, results)
    \/ StopEnd
    \/ PollForResponse
    \/ \E msg \in RecordingMessages : ServerSend(msg)
    \/ Tick

SpecRecord == Init /\ [][NextRecord]_vars

(***************************************************************************)
(* AeronArchive::pollForErrorResponse beside checkForErrorResponse: one    *)
(* poll under the mutex each.                                              *)
(***************************************************************************)
\* pollForErrorResponse throwing what checkForErrorResponse throws.
pollForErrorResponse_Throws(r) ==
    LET p == r.poller IN
    IF r.exception # NoException
    THEN [ret |-> "", exception |-> r.exception]
    ELSE IF r.fragments # 0 /\ p.pollComplete
            /\ p.controlSessionId = ControlSessionId
            /\ isControlResponse(p)
            /\ isCodeError(p)
    THEN [ret |-> "", exception |-> ArchiveException(<<p.errorMessage>>, p.relevantId)]
    ELSE [ret |-> "", exception |-> NoException]

\* What pollForErrorResponse does with the result r of poller.poll().
AeronArchive_pollForErrorResponse(r) ==
    LET p == r.poller IN
    IF r.exception # NoException
    THEN [ret |-> "", exception |-> r.exception]
    ELSE IF r.fragments # 0 /\ p.pollComplete
            /\ p.controlSessionId = ControlSessionId
            /\ isControlResponse(p)
            /\ isCodeError(p)
    THEN [ret |-> p.errorMessage, exception |-> NoException]
    ELSE [ret |-> "", exception |-> NoException]

PollForErrorResponse ==
    /\ call.pc = "idle"
    /\ LET r == ControlResponsePoller_poll(poller, stream)
           e == AeronArchive_pollForErrorResponse(r)
       IN
       /\ poller' = r.poller
       /\ stream' = r.rest
       /\ polled' = r.consumed
       /\ errLog' = [ran |-> TRUE, polled |-> r.consumed, left |-> r.rest,
                     ret |-> e.ret, exception |-> e.exception]
    /\ UNCHANGED <<connected, now, nextCorrelationId, serverSent, call, sent,
                   hasErrorHandler, handlerLog, unrelatedErrors, lastCheck, listVars,
                   elsewhere, destroyed, offerVars, connectVars, threadVars, pollLog,
                   closeLog, recordVars, transportVars, counterVars, assemblerVars>>

\* What the response stream may carry while no request is awaited.
PeekMessages ==
    PollerMessages \cup {ControlResponse(OtherSessionId, 2, 5, "ERROR")}

NextPeek ==
    \/ PollForErrorResponse
    \/ CheckForErrorResponse
    \/ \E msg \in PeekMessages : ServerSend(msg)

SpecPeek == Init /\ [][NextPeek]_vars

(***************************************************************************)
(* ReplayMerge driven on the thread that also makes synchronous calls and  *)
(* looks for error responses on the same session: a doWork step runs       *)
(* between the calls, never inside one.  The archive answers the requests  *)
(* of ReplayMerge and the request of the call.                             *)
(***************************************************************************)
NextShared ==
    \/ call.pc = "idle" /\ AwaitInitialRecordingPosition(<<"POSITION">>)
    \/ call.pc = "idle" /\ AwaitReplay(<<"POSITION">>)
    \/ \E correlationId \in 1..MaxMergeRequests, relevantId \in 0..MaxPosition :
           ServerAnswer(correlationId, relevantId, "OK")
    \/ \E op \in SyncOps : SyncRequest(op, <<"POSITION">>)
    \/ /\ call.pc = "pollForResponse"
       /\ ServerSend(ControlResponse(ControlSessionId, call.correlationId, 0, "OK"))
    \/ PollForResponse
    \/ Tick
    \/ CallEnd
    \/ PollForErrorResponse
    \/ CheckForErrorResponse

SpecShared == Init /\ [][NextShared]_vars

(***************************************************************************)
(* The system test mitigateMaxPositionExceeded over the transport.  An     *)
(* exclusive publication accepts a message while its position stays within *)
(* its max position; the subscription hands over the fragments of a        *)
(* publication in the order they were published.                           *)
(***************************************************************************)
\* ExclusivePublication::offer of value: the signal or the new position, and
\* the publication afterwards.
ExclusivePublication_offer(pub, value, pressured) ==
    IF pub.position + message_size > pub.maxPosition
    THEN [result |-> MAX_POSITION_EXCEEDED, pub |-> pub]
    ELSE IF pressured
    THEN [result |-> BACK_PRESSURED, pub |-> pub]
    ELSE [result |-> pub.position + message_size,
          pub |-> [pub EXCEPT !.position = @ + message_size,
                              !.log = Append(@, value)]]

\* offer of the test giving up at the first BACK_PRESSURED.
offer_NoRetry(pub, value, pressure) ==
    ExclusivePublication_offer(pub, value, pressure > 0)

\* offer of the test: it offers again while the publication answers
\* BACK_PRESSURED, which it does pressure times.
RECURSIVE offer(_, _, _)
offer(pub, value, pressure) ==
    LET r == ExclusivePublication_offer(pub, value, pressure > 0) IN
    IF r.result = BACK_PRESSURED THEN offer(r.pub, value, pressure - 1) ELSE r

\* sub.poll(handler, 1) finding a fragment of publication i, or nothing when
\* i is 0: the subscription afterwards.
Subscription_poll(i) ==
    IF i = 0 THEN sub
    ELSE [consumed |-> [sub.consumed EXCEPT ![i] = @ + 1],
          received |-> Append(sub.received,
                              [pub |-> i, value |-> pubs[i].log[sub.consumed[i] + 1]])]

\* The fragment handler of the test: the value is compared with
\* expected_rcv_value++.
handler(t, i) ==
    IF i = 0 THEN t
    ELSE [t EXCEPT !.expected_rcv_value = @ + 1,
                   !.failed = @ \/ pubs[i].log[sub.consumed[i] + 1] # t.expected_rcv_value]

\* Publication i has a fragment the subscription has not consumed.
Available(i) == pubs[i].added /\ sub.consumed[i] < Len(pubs[i].log)

\* Where the test goes on when hit_max_position or check_mitigation returns,
\* at its end or at a failed ASSERT_TRUE.
Return(t) == IF t.pub = 1 THEN "add_second" ELSE "done"

\* The loop goes on while send_value is not msg_count_until_max_pos; after it
\* hit_max_position publishes once more and check_mitigation drains.
LoopHead(t) ==
    IF t.send_value # msg_count_until_max_pos THEN "publish"
    ELSE IF t.pub = 1 THEN "last" ELSE "drain"

\* addExclusivePublication of the first publication, positioned
\* msg_count_until_max_pos messages before its max position, and of the
\* subscription; hit_max_position is entered.
AddFirst ==
    /\ test.pc = "add_first"
    /\ LET initial_position == max_position - message_size * msg_count_until_max_pos
           t == [test EXCEPT !.pub = 1, !.expected_position = initial_position]
       IN
       /\ pubs' = [pubs EXCEPT ![1] = [added |-> TRUE, position |-> initial_position,
                                       maxPosition |-> max_position, log |-> <<>>]]
       /\ test' = [t EXCEPT !.pc = LoopHead(t)]
    /\ UNCHANGED <<baseVars, destroyed, offerVars, connectVars, threadVars, pollLog,
                   closeLog, recordVars, errLog, sub, counterVars, assemblerVars>>

\* publish(pub, send_value++) in the loop of hit_max_position and of
\* check_mitigation, and the assertion on its result.
Publish(pressure) ==
    /\ test.pc = "publish"
    /\ LET r == offer(pubs[test.pub], test.send_value, pressure)
           expected_position == test.expected_position + message_size
       IN
       /\ pubs' = [pubs EXCEPT ![test.pub] = r.pub]
       /\ test' = [test EXCEPT
                       !.send_value = @ + 1,
                       !.expected_position = expected_position,
                       !.result = r.result,
                       !.failed = @ \/ r.result # expected_position,
                       !.pc = IF r.result # expected_position THEN Return(test)
                              ELSE "poll"]
    /\ UNCHANGED <<baseVars, destroyed, offerVars, connectVars, threadVars, pollLog,
                   closeLog, recordVars, errLog, sub, counterVars, assemblerVars>>

\* The poll of the loop.
PollInLoop(i) ==
    /\ test.pc = "poll"
    /\ i # 0 => Available(i)
    /\ sub' = Subscription_poll(i)
    /\ test' = [handler(test, i) EXCEPT !.pc = LoopHead(test)]
    /\ UNCHANGED <<baseVars, destroyed, offerVars, connectVars, threadVars, pollLog,
                   closeLog, recordVars, errLog, pubs, counterVars, assemblerVars>>

\* After its loop hit_max_position asserts the position and publishes once
\* more, expecting MAX_POSITION_EXCEEDED.
PublishLast(pressure) ==
    /\ test.pc = "last"
    /\ IF test.expected_position # max_position
       THEN /\ test' = [test EXCEPT !.failed = TRUE, !.pc = Return(test)]
            /\ pubs' = pubs
       ELSE LET r == offer(pubs[test.pub], test.send_value, pressure) IN
            /\ pubs' = [pubs EXCEPT ![test.pub] = r.pub]
            /\ test' = [test EXCEPT
                            !.result = r.result,
                            !.failed = @ \/ r.result # MAX_POSITION_EXCEEDED,
                            !.pc = IF r.result # MAX_POSITION_EXCEEDED
                                   THEN Return(test) ELSE "drain"]
    /\ UNCHANGED <<baseVars, destroyed, offerVars, connectVars, threadVars, pollLog,
                   closeLog, recordVars, errLog, sub, counterVars, assemblerVars>>

\* The last loop of both functions: poll until every value sent has been
\* received, then return.
Drain(i) ==
    /\ test.pc = "drain"
    /\ IF test.expected_rcv_value # test.send_value
       THEN /\ i # 0 => Available(i)
            /\ sub' = Subscription_poll(i)
            /\ test' = handler(test, i)
       ELSE /\ i = 0
            /\ sub' = sub
            /\ test' = [test EXCEPT !.pc = Return(test)]
    /\ UNCHANGED <<baseVars, destroyed, offerVars, connectVars, threadVars, pollLog,
                   closeLog, recordVars, errLog, pubs, counterVars, assemblerVars>>

\* addExclusivePublication of a new publication on the channel and stream of
\* the subscription; check_mitigation is entered.
AddSecond ==
    /\ test.pc = "add_second"
    /\ LET t == [test EXCEPT !.pub = 2, !.send_value = 0, !.expected_rcv_value = 0,
                             !.expected_position = 0]
       IN
       /\ pubs' = [pubs EXCEPT ![2] = [added |-> TRUE, position |-> 0,
                                       maxPosition |-> max_position, log |-> <<>>]]
       /\ test' = [t EXCEPT !.pc = LoopHead(t)]
    /\ UNCHANGED <<baseVars, destroyed, offerVars, connectVars, threadVars, pollLog,
                   closeLog, recordVars, errLog, sub, counterVars, assemblerVars>>

NextTransport ==
    \/ AddFirst
    \/ \E pressure \in 0..MaxBackPressure : Publish(pressure)
    \/ \E i \in 0..2 : PollInLoop(i)
    \/ \E pressure \in 0..MaxBackPressure : PublishLast(pressure)
    \/ \E i \in 0..2 : Drain(i)
    \/ AddSecond

SpecTransport == Init /\ [][NextTransport]_vars

\* ---- The recording position counters ----

\* What the registry and the RecordingPos functions leave alone.
besideCounters ==
    <<baseVars, destroyed, offerVars, connectVars, threadVars, pollLog, closeLog,
      recordVars, errLog, transportVars, assemblerVars>>

\* The media driver allocates a counter in a record that holds none.
AllocateCounter(i, typeId, recordingId, sessionId) ==
    /\ counters[i + 1].state # RECORD_ALLOCATED
    /\ counters' = [counters EXCEPT ![i + 1] =
                        [state |-> RECORD_ALLOCATED, typeId |-> typeId,
                         recordingId |-> recordingId, sessionId |-> sessionId]]
    /\ lookup' = NoLookup
    /\ UNCHANGED besideCounters

\* The media driver frees a counter: the record keeps its type id and key.
FreeCounter(i) ==
    /\ counters[i + 1].state = RECORD_ALLOCATED
    /\ counters' = [counters EXCEPT ![i + 1].state = RECORD_RECLAIMED]
    /\ lookup' = NoLookup
    /\ UNCHANGED besideCounters

FindCounterIdByRecording(recordingId) ==
    /\ lookup' = [NoLookup EXCEPT !.op = "findCounterIdByRecording", !.arg = recordingId,
                                   !.result = findCounterIdByRecording(counters, recordingId)]
    /\ UNCHANGED <<besideCounters, counters>>

FindCounterIdBySession(sessionId) ==
    /\ lookup' = [NoLookup EXCEPT !.op = "findCounterIdBySession", !.arg = sessionId,
                                   !.result = findCounterIdBySession(counters, sessionId)]
    /\ UNCHANGED <<besideCounters, counters>>

GetRecordingId(counterId) ==
    /\ lookup' = [NoLookup EXCEPT !.op = "getRecordingId", !.counterId = counterId,
                                   !.result = getRecordingId(counters, counterId)]
    /\ UNCHANGED <<besideCounters, counters>>

IsActive(counterId, recordingId) ==
    /\ lookup' = [NoLookup EXCEPT !.op = "isActive", !.counterId = counterId,
                                   !.arg = recordingId,
                                   !.active = isActive(counters, counterId, recordingId)]
    /\ UNCHANGED <<besideCounters, counters>>

CounterIds == 0..(NumCounters - 1)

NextCounters ==
    \/ \E i \in CounterIds, typeId \in TypeIds, recordingId \in RecordingIds,
          sessionId \in CounterSessionIds :
          AllocateCounter(i, typeId, recordingId, sessionId)
    \/ \E i \in CounterIds : FreeCounter(i)
    \/ \E recordingId \in RecordingIds : FindCounterIdByRecording(recordingId)
    \/ \E sessionId \in CounterSessionIds : FindCounterIdBySession(sessionId)
    \/ \E counterId \in CounterIds : GetRecordingId(counterId)
    \/ \E counterId \in CounterIds, recordingId \in RecordingIds :
          IsActive(counterId, recordingId)

SpecCounters == Init /\ [][NextCounters]_vars

\* ---- FragmentAssembler ----

besideAssembler ==
    <<baseVars, destroyed, offerVars, connectVars, threadVars, pollLog, closeLog,
      recordVars, errLog, transportVars, counterVars>>

\* The payload of the pending run of its session once frame has been taken.
RunAfter(frame, taken) ==
    IF UNFRAGMENTED \subseteq frame.flags THEN runs[frame.sessionId]
    ELSE IF BEGIN_FRAG \in frame.flags THEN frame.payload
    ELSE IF runs[frame.sessionId] = <<>> THEN <<>>
    ELSE IF END_FRAG \in frame.flags
    THEN (IF taken THEN <<>> ELSE runs[frame.sessionId])
    ELSE runs[frame.sessionId] \o frame.payload

\* A frame is one the subscription can hand over: the one due again after an
\* ABORT, and a fragment that keeps the assembled payload within the bound.
Deliverable(frame) ==
    /\ fa.redelivery.due => frame = fa.redelivery.frame
    /\ Len(fa.builderBySessionIdMap[frame.sessionId].data) + Len(frame.payload)
           <= MaxAssembled

\* A controlled poll hands frame to the assembler; the delegate, if called,
\* returns reply.  After ABORT the poll hands the same frame over again.
OnControlledFragment(frame, reply) ==
    /\ fa.handler \in {"none", "controlled"}
    /\ Deliverable(frame)
    /\ LET r == onFragment(fa.builderBySessionIdMap, frame, reply) IN
       /\ fa' = [builderBySessionIdMap |-> r.map, handler |-> "controlled",
                 redelivery |-> IF r.action = "ABORT"
                                THEN [due |-> TRUE, frame |-> frame]
                                ELSE NoRedelivery]
       /\ faLog' = [ran |-> TRUE, frame |-> frame, calls |-> r.calls, action |-> r.action,
                    pending |-> runs[frame.sessionId]]
       /\ runs' = [runs EXCEPT ![frame.sessionId] = RunAfter(frame, r.action # "ABORT")]
    /\ UNCHANGED besideAssembler

\* A poll hands frame to the assembler of a fragment_handler_t.
OnPlainFragment(frame) ==
    /\ fa.handler \in {"none", "plain"}
    /\ Deliverable(frame)
    /\ LET r == onFragment_void(fa.builderBySessionIdMap, frame) IN
       /\ fa' = [builderBySessionIdMap |-> r.map, handler |-> "plain",
                 redelivery |-> NoRedelivery]
       /\ faLog' = [ran |-> TRUE, frame |-> frame, calls |-> r.calls, action |-> r.action,
                    pending |-> runs[frame.sessionId]]
       /\ runs' = [runs EXCEPT ![frame.sessionId] = RunAfter(frame, TRUE)]
    /\ UNCHANGED besideAssembler

\* deleteSessionBuffer: the builder of the session is erased, the image gone
\* and what it had delivered of a message with it.
DeleteSessionBuffer(sessionId) ==
    /\ fa.builderBySessionIdMap[sessionId].present
    /\ ~(fa.redelivery.due /\ fa.redelivery.frame.sessionId = sessionId)
    /\ fa' = [fa EXCEPT !.builderBySessionIdMap[sessionId] = NoBuilder]
    /\ runs' = [runs EXCEPT ![sessionId] = <<>>]
    /\ faLog' = NoFrameYet
    /\ UNCHANGED besideAssembler

ControlledPollActions == {"CONTINUE", "BREAK", "ABORT"}

NextAssembler ==
    \/ \E frame \in Frames, reply \in ControlledPollActions :
           OnControlledFragment(frame, reply)
    \/ \E frame \in Frames : OnPlainFragment(frame)
    \/ \E sessionId \in FrameSessionIds : DeleteSessionBuffer(sessionId)

SpecAssembler == Init /\ [][NextAssembler]_vars

\* The busy loop of a wait keeps polling and the clock keeps advancing.
SpecLive == Init /\ [][Next]_vars /\ WF_vars(PollForResponse) /\ WF_vars(Tick)

(***************************************************************************)
(* Properties of the synchronous wait.                                     *)
(***************************************************************************)
\* The message that ended the latest poll of the control response poller.
LastPolled == polled[Len(polled)]

\* msg is a control response of this session for the awaited correlation id.
IsAwaitedResponse(msg) ==
    /\ msg.schemaId = sbeSchemaId
    /\ msg.templateId = "ControlResponse"
    /\ msg.controlSessionId = ControlSessionId
    /\ msg.correlationId = call.correlationId

\* C1: a synchronous request returns a value only when the last polled message
\* is a ControlResponse of this session for the request's correlation id with
\* code OK, and the value returned is that response's relevantId.
C1_ReturnsOnlyMatchingOk ==
    (call.op \in SyncOps /\ call.pc = "returned") =>
        /\ polled # <<>>
        /\ IsAwaitedResponse(LastPolled)
        /\ LastPolled.code = "OK"
        /\ call.value = LastPolled.relevantId

\* A request returned 5 after an earlier message had been polled and passed over.
C1_Witness ==
    /\ call.op \in SyncOps
    /\ call.pc = "returned"
    /\ call.value = 5
    /\ serverSent = 2
    /\ stream = <<>>

\* C2: a matching ControlResponse with code ERROR ends the call with an
\* ArchiveException carrying the error message and relevantId as error code; a
\* matching one with a code that is neither OK nor ERROR ends it with an
\* 'unexpected response code' error; neither returns a value.
C2_MatchingErrorRaises ==
    (call.op \in SyncOps /\ polled # <<>> /\ IsAwaitedResponse(LastPolled)
        /\ LastPolled.code # "OK") =>
        /\ call.pc = "thrown"
        /\ call.value = NULL_VALUE
        /\ call.exception.type = "ArchiveException"
        /\ IF LastPolled.code = "ERROR"
           THEN /\ call.exception.what[4] = LastPolled.errorMessage
                /\ call.exception.errorCode = LastPolled.relevantId
           ELSE /\ call.exception.what[1] = "unexpected response code: "
                /\ call.exception.what[2] = LastPolled.code

\* A request ended by the ERROR response "boom" with relevantId 5.
C2_Witness ==
    /\ call.op \in SyncOps
    /\ call.pc = "thrown"
    /\ polled # <<>>
    /\ IsAwaitedResponse(LastPolled)
    /\ LastPolled.code = "ERROR"
    /\ call.exception.errorCode = 5
    /\ call.exception.what[4] = "boom"

\* The call ended without a response for its correlation id, on a connected
\* subscription and without a schema fault.
EndedUnanswered ==
    /\ call.op \in SyncOps
    /\ call.pc \in {"returned", "thrown"}
    /\ Len(sent) = nextCorrelationId - 1
    /\ connected
    /\ polled = <<>>

C4_Safety ==
    EndedUnanswered =>
        /\ call.pc = "thrown"
        /\ call.value = NULL_VALUE
        /\ call.exception = TimeoutException(
               <<"awaiting response - correlationId=", call.correlationId>>)
        /\ call.deadlineTs = call.startTs + MessageTimeout
        /\ call.endTs > call.deadlineTs
        /\ Len(SelectSeq(sent, LAMBDA q : q.correlationId = call.correlationId)) = 1

HandledByWaits ==
    SelectSeq(handlerLog, LAMBDA e : e.what[1] = "response for correlationId=")

\* checkForErrorResponse polled an ERROR response of this session itself.
CheckPolledError ==
    /\ lastCheck.polled # <<>>
    /\ LET m == lastCheck.polled[Len(lastCheck.polled)] IN
          /\ m.schemaId = sbeSchemaId
          /\ m.templateId = "ControlResponse"
          /\ m.controlSessionId = ControlSessionId
          /\ m.code = "ERROR"

\* C3 as stated: an ERROR of this session for another correlation id is given
\* to the errorHandler if one is installed and, when none is installed, is
\* raised by the next checkForErrorResponse.
C3_NeverDropped ==
    /\ hasErrorHandler => Len(HandledByWaits) = Len(unrelatedErrors)
    /\ (~hasErrorHandler /\ lastCheck.ran /\ lastCheck.pendingBefore # <<>>) =>
           lastCheck.exception.type = "ArchiveException"

\* C3: an ERROR of this session for another correlation id met by a wait is
\* given to the errorHandler, in order and with its message and code, if one is
\* installed; when none is installed the wait consumes and discards it, and
\* checkForErrorResponse raises exactly when its own poll ends at an ERROR
\* response of this session or at a schema fault.
C3_HandlerOrDiscarded ==
    /\ hasErrorHandler =>
           /\ Len(HandledByWaits) = Len(unrelatedErrors)
           /\ \A i \in 1..Len(unrelatedErrors) :
                  /\ HandledByWaits[i].what[4] = unrelatedErrors[i].errorMessage
                  /\ HandledByWaits[i].errorCode = unrelatedErrors[i].relevantId
    /\ ~hasErrorHandler =>
           /\ handlerLog = <<>>
           /\ lastCheck.ran =>
                  (lastCheck.exception # NoException) <=>
                      \/ CheckPolledError
                      \/ /\ lastCheck.polled # <<>>
                         /\ lastCheck.polled[Len(lastCheck.polled)].schemaId # sbeSchemaId

\* Without a handler a wait met an ERROR for another correlation id, and the
\* checkForErrorResponse that followed raised nothing.
C3_Witness ==
    /\ ~hasErrorHandler
    /\ lastCheck.ran
    /\ lastCheck.pendingBefore # <<>>
    /\ lastCheck.exception = NoException

(***************************************************************************)
(* Properties of the bounded listings.                                     *)
(***************************************************************************)
\* The descriptor template and the terminating code of the listing in progress.
ListTemplate ==
    IF call.op = "listRecordingSubscriptions"
    THEN "RecordingSubscriptionDescriptor" ELSE "RecordingDescriptor"

ListTerminator ==
    IF call.op = "listRecordingSubscriptions"
    THEN "SUBSCRIPTION_UNKNOWN" ELSE "RECORDING_UNKNOWN"

IsDescriptor(msg) == msg.schemaId = sbeSchemaId /\ msg.templateId = ListTemplate

IsMatchingDescriptor(msg) ==
    /\ IsDescriptor(msg)
    /\ msg.controlSessionId = ControlSessionId
    /\ msg.correlationId = call.correlationId

\* The descriptors of the listing among the messages it read, in arrival order.
MatchingReceived == SelectSeq(received, IsMatchingDescriptor)

\* C5: a listing for N descriptors makes at most N consumer callbacks, in
\* arrival order, and returns k <= N equal to the number of callbacks made.
C5_CountIsDelivered ==
    call.op \in ListOps =>
        /\ Len(consumerLog) <= call.recordCount
        /\ consumerLog = MatchingReceived
        /\ call.pc = "returned" =>
               /\ call.value <= call.recordCount
               /\ call.value = Len(consumerLog)

\* C6: the deadline of a listing is moved to now + messageTimeout at every
\* descriptor callback, so TimeoutException is raised only when more than
\* messageTimeout has passed since the last callback (or since the start).
C6_DeadlineFollowsCallbacks ==
    call.op \in ListOps =>
        /\ call.pc = "pollForDescriptors" =>
               call.deadlineTs >= call.lastCallbackTs + MessageTimeout
        /\ (call.pc = "thrown" /\ call.exception.type = "TimeoutException") =>
               call.endTs - call.lastCallbackTs > MessageTimeout

\* A listing timed out although a descriptor had been delivered after its start.
C6_Witness ==
    /\ call.op \in ListOps
    /\ call.pc = "thrown"
    /\ call.exception.type = "TimeoutException"
    /\ Len(consumerLog) >= 1
    /\ call.lastCallbackTs > call.startTs

IsMatchingTerminator(msg) ==
    /\ msg.schemaId = sbeSchemaId
    /\ msg.templateId = "ControlResponse"
    /\ msg.controlSessionId = ControlSessionId
    /\ msg.correlationId = call.correlationId
    /\ msg.code = ListTerminator

\* C7: a listing for N that was sent k < N descriptors of its own returns only
\* at the RECORDING_UNKNOWN (SUBSCRIPTION_UNKNOWN) response of this session for
\* its correlation id, returns k, and has invoked the consumer exactly k times
\* in arrival order; no other terminator ends it.
C7_TerminatorEndsListing ==
    (call.op \in ListOps /\ call.pc = "returned"
        /\ Len(MatchingReceived) < call.recordCount) =>
        /\ received # <<>>
        /\ IsMatchingTerminator(received[Len(received)])
        /\ call.value = Len(MatchingReceived)
        /\ consumerLog = MatchingReceived

(***************************************************************************)
(* Properties of the pollers.                                              *)
(***************************************************************************)
\* C8: in each of the four pollers a fragment whose schemaId is not the
\* expected one raises the schema ArchiveException with no poller field
\* changed and no consumer, error-handler or event callback made for it.
C8_SchemaCheckedFirst ==
    (fragment.ran /\ fragment.msg.schemaId # sbeSchemaId) =>
        /\ fragment.exception = SchemaException(fragment.msg.schemaId)
        /\ fragment.after = fragment.before
        /\ Len(fragment.consumed) = 0
        /\ Len(fragment.handled) = 0
        /\ Len(fragment.events) = 0

\* A descriptor of the listing in progress, with a foreign schema id, reached
\* the recording descriptor poller while it still expected descriptors.
C8_Witness ==
    /\ fragment.ran
    /\ fragment.poller = "RecordingDescriptorPoller"
    /\ fragment.msg.schemaId # sbeSchemaId
    /\ fragment.msg.templateId = "RecordingDescriptor"
    /\ fragment.msg.correlationId = fragment.before.correlationId
    /\ fragment.before.remainingRecordCount > 0
    /\ fragment.exception.type = "ArchiveException"

(***************************************************************************)
(* Properties of ReplayMerge.                                              *)
(***************************************************************************)
\* C9: at most one request of ReplayMerge is in flight, activeCorrelationId is
\* non-null and the id of that request exactly when one is in flight, and it
\* is never the id of a request whose response has been consumed.  Stated for
\* the machine that no exception has stopped.
C9_SingleFlight ==
    rm.state # "FAILED" =>
        /\ Cardinality(inFlight) <= 1
        /\ (rm.activeCorrelationId # NULL_VALUE) <=> (inFlight = {rm.activeCorrelationId})
        /\ rm.activeCorrelationId \notin answered

\* C10: in MERGED the replay destination is off the subscription,
\* isReplayActive is false, no request is in flight, and the response to the
\* stopReplay request has been received.
C10_Merged ==
    rm.state = "MERGED" =>
        /\ "replayDestination" \notin destinations
        /\ ~rm.isReplayActive
        /\ inFlight = {}
        /\ rm.activeCorrelationId = NULL_VALUE
        /\ \E i \in 1..Len(sent) :
               sent[i].op = "stopReplay" /\ sent[i].correlationId \in answered

\* The merge completed with the live destination on the subscription.
C10_Witness ==
    /\ rm.state = "MERGED"
    /\ rm.isLiveAdded
    /\ "liveDestination" \in destinations

(***************************************************************************)
(* C11: a ReplayMerge destroyed in a state other than CLOSED or MERGED      *)
(* stops the replay if it is active, removes the replay destination and    *)
(* ends in CLOSED; destroyed in MERGED or CLOSED it sends nothing and      *)
(* removes nothing.                                                        *)
(***************************************************************************)
C11_DestructorCleansUp ==
    destroyed.ran =>
        IF destroyed.state \notin {"CLOSED", "MERGED"}
        THEN /\ destroyed.isReplayActive => destroyed.stopReplay
             /\ "replayDestination" \notin destinations
             /\ rm.state = "CLOSED"
        ELSE destroyed.requests = 0 /\ ~destroyed.removed

(***************************************************************************)
(* The offers of ArchiveProxy.                                             *)
(***************************************************************************)
Attempts == Len(proxy.results)

LastResult == proxy.results[Attempts]

Accepted == {i \in 1..Attempts : proxy.results[i] = "POSITION"}

PlainOffer == proxy.flavour = "offer" /\ Attempts > 0

TimedOffer == proxy.flavour \in TimedFlavours /\ Attempts > 0

ReturnedFalse == proxy.pc = "returned" /\ ~proxy.ret

\* The offer goes on: it has idled once after every answer so far.
Retrying == proxy.pc = "offering" /\ proxy.idles = Attempts

\* The offer has given up after retryAttempts attempts, idling in between.
Exhausted ==
    /\ ReturnedFalse
    /\ Attempts = proxy.retryAttempts
    /\ proxy.idles = Attempts - 1

C13_AtMostRetryAttempts ==
    PlainOffer =>
        /\ Attempts <= proxy.retryAttempts
        /\ ReturnedFalse => Attempts = proxy.retryAttempts
        /\ (\A i \in 1..Attempts : proxy.results[i] = "BACK_PRESSURED") =>
               IF Attempts = proxy.retryAttempts
               THEN ReturnedFalse
               ELSE proxy.pc = "offering"

\* The default three attempts, all back-pressured.
C13_Witness ==
    /\ PlainOffer
    /\ proxy.retryAttempts = DEFAULT_RETRY_ATTEMPTS
    /\ proxy.results = [i \in 1..DEFAULT_RETRY_ATTEMPTS |-> "BACK_PRESSURED"]
    /\ ReturnedFalse

(***************************************************************************)
(* C14: in offer and in both offerWithTimeout an answer of                 *)
(* PUBLICATION_CLOSED or MAX_POSITION_EXCEEDED raises an ArchiveException  *)
(* at once: it is the last attempt and the operation does not return.      *)
(***************************************************************************)
C14_FatalAnswerRaises ==
    proxy.flavour \in {"offer"} \cup TimedFlavours =>
        \A i \in 1..Attempts :
            proxy.results[i] \in {"PUBLICATION_CLOSED", "MAX_POSITION_EXCEEDED"} =>
                /\ i = Attempts
                /\ proxy.pc = "thrown"
                /\ proxy.exception.type = "ArchiveException"

\* A connect with conductor invocation is told MAX_POSITION_EXCEEDED on its
\* second attempt.
C14_Witness ==
    /\ proxy.flavour = "offerWithTimeoutInvoker"
    /\ proxy.results = <<"NOT_CONNECTED", "MAX_POSITION_EXCEEDED">>
    /\ proxy.pc = "thrown"

(***************************************************************************)
(* C15: a timed offer has made at least one attempt when it ends; after    *)
(* BACK_PRESSURED, NOT_CONNECTED and ADMIN_ACTION alike it offers again    *)
(* as long as the clock has not passed now + connectTimeout; it returns    *)
(* true at the first accepted offer and false only after a rejected        *)
(* attempt with the clock past the deadline.                               *)
(***************************************************************************)
NonFatal == {"BACK_PRESSURED", "NOT_CONNECTED", "ADMIN_ACTION"}

C15_TimedOffer ==
    proxy.flavour \in TimedFlavours =>
        /\ proxy.deadlineTs = proxy.startTs + proxy.connectTimeout
        /\ proxy.pc \in {"returned", "thrown"} => Attempts >= 1
        /\ \A i \in 1..(Attempts - 1) : proxy.results[i] \in NonFatal
        /\ TimedOffer /\ LastResult \in NonFatal =>
               IF proxy.sentinelTs <= proxy.deadlineTs
               THEN Retrying
               ELSE ReturnedFalse
        /\ ReturnedFalse =>
               LastResult \in NonFatal /\ proxy.sentinelTs > proxy.deadlineTs
        /\ proxy.pc = "returned" /\ proxy.ret => LastResult = "POSITION"
        /\ TimedOffer /\ LastResult = "POSITION" => proxy.pc = "returned" /\ proxy.ret

\* A connect retried after NOT_CONNECTED and after back-pressure gives up
\* when the deadline has passed.
C15_Witness ==
    /\ proxy.flavour = "offerWithTimeout"
    /\ proxy.results = <<"NOT_CONNECTED", "BACK_PRESSURED", "ADMIN_ACTION">>
    /\ ReturnedFalse
    /\ proxy.sentinelTs = proxy.deadlineTs + 1

(***************************************************************************)
(* C16: an operation of the proxy that returns true has had exactly one    *)
(* offer accepted, one that returns false or raises has had none, and no   *)
(* offer is made after an accepted one.                                    *)
(***************************************************************************)
C16_ExactlyOneAccepted ==
    /\ \A i \in Accepted : i = Attempts /\ proxy.pc = "returned"
    /\ proxy.pc = "returned" /\ proxy.ret => Cardinality(Accepted) = 1
    /\ ReturnedFalse \/ proxy.pc = "thrown" => Accepted = {}

\* A request accepted on its third attempt.
C16_Witness ==
    /\ PlainOffer
    /\ proxy.results = <<"BACK_PRESSURED", "ADMIN_ACTION", "POSITION">>
    /\ proxy.pc = "returned" /\ proxy.ret

(***************************************************************************)
(* AsyncConnect.                                                           *)
(***************************************************************************)
\* The message the latest poll() of AsyncConnect ended on.
LastConsumed == acLog.consumed[Len(acLog.consumed)]

\* The latest poll() decoded a ControlResponse to the connect request.
DecodedConnectResponse ==
    /\ acLog.consumed # <<>>
    /\ LastConsumed.schemaId = sbeSchemaId
    /\ LastConsumed.templateId = "ControlResponse"
    /\ LastConsumed.correlationId = ac.correlationId

(***************************************************************************)
(* C17: poll returns true only with the response subscription connected,   *)
(* the connect request accepted by the publication and a ControlResponse   *)
(* decoded by this poll whose correlation id is the connect request's and  *)
(* whose code is OK; makeArchive called next yields a client with the      *)
(* control session id of that response.                                    *)
(***************************************************************************)
C17_TrueOnlyWhenConnected ==
    /\ acLog.ret = "true" =>
           /\ ac.controlResponsePollerReady /\ acLog.connected
           /\ ac.archiveProxyReady /\ acLog.accepted = 1
           /\ ac.correlationId # NULL_VALUE
           /\ DecodedConnectResponse
           /\ LastConsumed.code = "OK"
    /\ acLog.ret = "true" /\ archive # NoArchive =>
           /\ archive.made = "made"
           /\ archive.controlSessionId = LastConsumed.controlSessionId

\* poll has returned true on the OK response and makeArchive has been called.
C17_Witness ==
    /\ acLog.ret = "true"
    /\ archive.made = "made"
    /\ archive.controlSessionId = ControlSessionId

(***************************************************************************)
(* C18: a poll after poll has returned true is harmless: it sends no       *)
(* further connect request, raises nothing, and makeArchive after it still *)
(* yields a client with the control session id of the OK connect response. *)
(***************************************************************************)
C18_RepollHarmless ==
    acLog.completed /\ acLog.repolled =>
        /\ ~acLog.sentAfter
        /\ ~acLog.raisedAfter
        /\ \A ndebug \in BOOLEAN :
               LET yields == IF archive = NoArchive
                             THEN AsyncConnect_makeArchive(ac, ndebug)
                             ELSE archive
               IN /\ yields.made = "made"
                  /\ yields.controlSessionId = acLog.response.controlSessionId

(***************************************************************************)
(* C19: a ControlResponse matching the connect correlation id with code    *)
(* ERROR makes poll raise an ArchiveException carrying the error message   *)
(* and relevantId as its error code; with any other code but OK poll       *)
(* raises an unexpected response error; poll never returns true on a       *)
(* response that is not OK.                                                *)
(***************************************************************************)
C19_NonOkRaises ==
    /\ DecodedConnectResponse /\ LastConsumed.code = "ERROR" =>
           /\ acLog.ret = "throw"
           /\ acLog.exception = ArchiveException(<<"error: ", LastConsumed.errorMessage>>,
                                                 LastConsumed.relevantId)
    /\ DecodedConnectResponse /\ LastConsumed.code \notin {"OK", "ERROR"} =>
           /\ acLog.ret = "throw"
           /\ acLog.exception =
                  ArchiveException(<<"unexpected response: code=", LastConsumed.code>>,
                                   GENERIC)
    /\ acLog.ret = "true" => DecodedConnectResponse /\ LastConsumed.code = "OK"

\* The archive has refused the connect request.
C19_Witness ==
    /\ DecodedConnectResponse
    /\ LastConsumed.code = "ERROR"
    /\ acLog.ret = "throw"
    /\ acLog.exception.errorCode = 5

(***************************************************************************)
(* C20: with several threads on one AeronArchive the calls are mutually    *)
(* exclusive: between the allocation of a call's correlation id and its    *)
(* response or error no other call sends or polls on the session, at most  *)
(* one request of the session awaits its response, and the scratch buffer  *)
(* of the proxy is never being encoded by two calls.                       *)
(***************************************************************************)
AwaitingResponse == {sent[i].correlationId : i \in 1..Len(sent)} \ answered

C20_CallsExclusive ==
    /\ \A a \in Agents : ~th[a].interleaved
    /\ Cardinality(AwaitingResponse) <= 1
    /\ Cardinality({a \in Agents : th[a].pc = "encoding"}) <= 1

(***************************************************************************)
(* ControlResponsePoller::poll.                                            *)
(***************************************************************************)
\* poll() has returned, not thrown.
PollReturned == pollLog.ran /\ pollLog.exception = NoException

\* The fields of the poller are those of the ControlResponse last read by
\* the latest poll.
DecodedInThisPoll ==
    /\ pollLog.consumed # <<>>
    /\ LET msg == pollLog.consumed[Len(pollLog.consumed)] IN
       /\ msg.templateId = "ControlResponse"
       /\ poller.templateId = msg.templateId
       /\ poller.controlSessionId = msg.controlSessionId
       /\ poller.correlationId = msg.correlationId
       /\ poller.relevantId = msg.relevantId
       /\ poller.code = msg.code
       /\ poller.errorMessage = msg.errorMessage

\* The fields poll() sets back hold nothing of an earlier poll: the ids are
\* -1, the error message is empty and the template id is that of the message
\* last read by this poll, if any.
NothingOfEarlierPolls ==
    /\ poller.controlSessionId = -1
    /\ poller.correlationId = -1
    /\ poller.relevantId = -1
    /\ poller.errorMessage = ""
    /\ poller.templateId =
           IF pollLog.consumed = <<>> THEN NoTemplateId
           ELSE pollLog.consumed[Len(pollLog.consumed)].templateId

(***************************************************************************)
(* C21 as claimed: after poll() returns, isPollComplete is true and every  *)
(* field is that of the ControlResponse decoded in this poll, or           *)
(* isPollComplete is false and no field carries a value from an earlier    *)
(* poll, the code read by isCodeOk and isCodeError included.               *)
(***************************************************************************)
C21_EveryFieldReset ==
    PollReturned =>
        \/ poller.pollComplete /\ DecodedInThisPoll
        \/ /\ ~poller.pollComplete
           /\ NothingOfEarlierPolls
           /\ ~isCodeOk(poller)
           /\ ~isCodeError(poller)

(***************************************************************************)
(* C21 amended: after poll() returns, isPollComplete is true and every     *)
(* field is that of the ControlResponse decoded in this poll, or           *)
(* isPollComplete is false, controlSessionId, correlationId, relevantId,   *)
(* templateId and errorMessage carry nothing of an earlier poll, and the   *)
(* code is the one the poller had before the poll.                         *)
(***************************************************************************)
C21_ResetButCode ==
    PollReturned =>
        \/ poller.pollComplete /\ DecodedInThisPoll
        \/ /\ ~poller.pollComplete
           /\ NothingOfEarlierPolls
           /\ poller.code = pollLog.before.code

\* A poll that read no ControlResponse, after a poll that decoded an ERROR
\* response with a relevant id.
C21_Witness ==
    /\ PollReturned
    /\ ~poller.pollComplete
    /\ pollLog.before.pollComplete
    /\ pollLog.before.relevantId = 5
    /\ isCodeError(pollLog.before)

(***************************************************************************)
(* ~AeronArchive.                                                          *)
(***************************************************************************)
CloseSessionsSent ==
    {i \in 1..Len(sent) : sent[i].op = "closeSession"}

(***************************************************************************)
(* C22: a destroyed AeronArchive has offered one closeSession request      *)
(* carrying its controlSessionId, holding the mutex, at most one has been  *)
(* accepted, and whatever the publication answered (back pressure, not     *)
(* connected, closed) no exception has left the destructor.                *)
(***************************************************************************)
C22_CloseIsBestEffort ==
    closeLog.ran =>
        /\ closeLog.mutex = "held"
        /\ Cardinality(CloseSessionsSent) <= 1
        /\ \A i \in CloseSessionsSent : sent[i].controlSessionId = ControlSessionId
        /\ closeLog.ret = "true" <=> CloseSessionsSent # {}
        /\ closeLog.exception = NoException

(***************************************************************************)
(* Recorded publications.                                                  *)
(***************************************************************************)
StartRecordingsSent == {i \in 1..Len(sent) : sent[i].op = "startRecording"}

StopRecordingsSent == {i \in 1..Len(sent) : sent[i].op = "stopRecording"}

\* A channel URI with parameters: pieces follow its media.
HasParameters(channel) == Len(channel) > 1

DigitValue(c) == CHOOSE d \in 0..9 : Digit(d) = c

RECURSIVE ParseDigits(_)
ParseDigits(str) ==
    IF str = <<>> THEN 0
    ELSE 10 * ParseDigits(SubSeq(str, 1, Len(str) - 1)) + DigitValue(str[Len(str)])

\* The int32 a decimal string stands for.
ParseInt(str) == IF str[1] = "-" THEN -ParseDigits(Tail(str)) ELSE ParseDigits(str)

\* recorded is channel with session-id=<sessionId> appended, after '?' when
\* channel has no parameter yet and after '|' otherwise.
IsSessionScoped(recorded, channel, sessionId) ==
    LET n == Len(channel) IN
    /\ Len(recorded) > n + 3
    /\ SubSeq(recorded, 1, n) = channel
    /\ recorded[n + 1] = IF HasParameters(channel) THEN "|" ELSE "?"
    /\ recorded[n + 2] = "session-id"
    /\ recorded[n + 3] = "="
    /\ ParseInt(SubSeq(recorded, n + 4, Len(recorded))) = sessionId

(***************************************************************************)
(* C23: a startRecording request of addRecordedPublication or              *)
(* addRecordedExclusivePublication is sent only once the publication has   *)
(* been found and is the original one; when the publication found is not   *)
(* original the call has thrown an ArchiveException and no startRecording  *)
(* request has been sent; the channel of the request is the given channel  *)
(* with session-id=<sessionId of the publication> appended, after '?' when *)
(* the channel has no parameter yet and after '|' otherwise.               *)
(***************************************************************************)
C23_RecordsOriginalOnly ==
    /\ \A i \in StartRecordingsSent :
           /\ aeronPub.registered
           /\ aeronPub.original
           /\ sent[i].streamId = rec.streamId
           /\ sent[i].controlSessionId = ControlSessionId
           /\ IsSessionScoped(sent[i].channel, rec.channel, aeronPub.sessionId)
    /\ Cardinality(StartRecordingsSent) <= 1
    /\ aeronPub.registered /\ ~aeronPub.original /\ rec.pc # "findPublication" =>
           /\ rec.pc = "thrown"
           /\ rec.exception.type = "ArchiveException"
           /\ StartRecordingsSent = {}
    /\ rec.pc \in {"startRecording", "awaiting", "returned"} =>
           aeronPub.registered /\ aeronPub.original

\* A recorded exclusive publication on a channel that had parameters, its
\* session id negative.
C23_Witness ==
    /\ rec.pc = "returned"
    /\ rec.kind = "ExclusivePublication"
    /\ HasParameters(rec.channel)
    /\ aeronPub.sessionId < 0
    /\ StartRecordingsSent # {}

(***************************************************************************)
(* C24: stopRecording(publication) sends what                              *)
(* stopRecording(addSessionId(publication.channel, publication.sessionId), *)
(* publication.streamId) sends in its place, one request at most, and      *)
(* leaves the call as that one does, so that the two end alike; the        *)
(* channel it stops is the channel addRecordedPublication started          *)
(* recording for the publication.                                          *)
(***************************************************************************)
C24_StopByPublication ==
    stopLog.ran /\ stopLog.form = "publication" =>
        LET byChannel ==
                AeronArchive_stopRecording(
                    addSessionId(aeronPub.channel, aeronPub.sessionId), aeronPub.streamId,
                    stopLog.correlationId, stopLog.results, stopLog.sentBefore, stopLog.now)
        IN
        /\ stopLog.sentAfter = byChannel.sent
        /\ stopLog.callAfter = byChannel.call
        /\ Len(stopLog.sentAfter) <= Len(stopLog.sentBefore) + 1
        /\ \A i \in StartRecordingsSent, j \in StopRecordingsSent :
               /\ sent[j].channel = sent[i].channel
               /\ sent[j].streamId = sent[i].streamId
               /\ sent[j].controlSessionId = sent[i].controlSessionId

\* stopRecording(publication) has returned for a publication recorded on a
\* channel without parameters.
C24_Witness ==
    /\ stopLog.ran
    /\ stopLog.form = "publication"
    /\ stopLog.outcome = "returned"
    /\ ~HasParameters(aeronPub.channel)
    /\ StopRecordingsSent # {}

(***************************************************************************)
(* pollForErrorResponse and checkForErrorResponse.                         *)
(***************************************************************************)
\* msg is an ERROR ControlResponse of this session.
IsSessionError(msg) ==
    /\ msg.schemaId = sbeSchemaId
    /\ msg.templateId = "ControlResponse"
    /\ msg.controlSessionId = ControlSessionId
    /\ msg.code = "ERROR"

\* The poll read no more than one ControlResponse, as its last message.
OnePoll(msgs) ==
    \A i \in 1..(Len(msgs) - 1) :
        msgs[i].schemaId = sbeSchemaId /\ msgs[i].templateId # "ControlResponse"

SchemaFault(msgs) == msgs # <<>> /\ msgs[Len(msgs)].schemaId # sbeSchemaId

(***************************************************************************)
(* C25: pollForErrorResponse polls once and raises nothing on an error     *)
(* response: it returns the error message when the message its poll ended  *)
(* at is an ERROR ControlResponse of this session and the empty string in  *)
(* every other case; checkForErrorResponse at such a message gives the     *)
(* error to the errorHandler when one is installed and raises an           *)
(* ArchiveException only when none is.                                     *)
(***************************************************************************)
C25_PeekDoesNotRaise ==
    /\ errLog.ran =>
           /\ OnePoll(errLog.polled)
           /\ errLog.exception # NoException <=> SchemaFault(errLog.polled)
           /\ errLog.ret =
                  IF errLog.polled # <<>> /\ IsSessionError(errLog.polled[Len(errLog.polled)])
                  THEN errLog.polled[Len(errLog.polled)].errorMessage
                  ELSE ""
    /\ lastCheck.ran =>
           /\ OnePoll(lastCheck.polled)
           /\ CheckPolledError /\ hasErrorHandler =>
                  /\ lastCheck.exception = NoException
                  /\ handlerLog # <<>>
                  /\ LET msg == lastCheck.polled[Len(lastCheck.polled)] IN
                     handlerLog[Len(handlerLog)] =
                         ArchiveException(<<msg.errorMessage>>, msg.relevantId)
           /\ CheckPolledError /\ ~hasErrorHandler =>
                  LET msg == lastCheck.polled[Len(lastCheck.polled)] IN
                  lastCheck.exception =
                      ArchiveException(<<msg.errorMessage>>, msg.relevantId)
           /\ ~CheckPolledError =>
                  lastCheck.exception # NoException <=> SchemaFault(lastCheck.polled)
    /\ ~hasErrorHandler => handlerLog = <<>>

\* pollForErrorResponse has returned the message of an ERROR response of the
\* session, and checkForErrorResponse has given one to the errorHandler.
C25_Witness ==
    /\ errLog.ran
    /\ errLog.ret = "boom"
    /\ errLog.exception = NoException
    /\ lastCheck.ran
    /\ hasErrorHandler
    /\ handlerLog # <<>>

(***************************************************************************)
(* The exclusive publication at its max position.                          *)
(***************************************************************************)
\* The values publication i has had accepted, and those received of it.
Published(i) == pubs[i].log

ReceivedOf(i) ==
    LET of == SelectSeq(sub.received, LAMBDA f : f.pub = i) IN
    [k \in 1..Len(of) |-> of[k].value]

\* hit_max_position has published at the max position.
PastMaxPosition == test.pub = 2 \/ test.pc \in {"drain", "add_second"}

WorkStep ==
    /\ ~destroyed'.ran
    /\ served' = served
    /\ serverSent' = serverSent
    /\ imagePosition' = imagePosition

\* The step has polled a whole ControlResponse of the session for the active
\* correlation id, and its code is not ERROR.
PolledResponse ==
    /\ WorkStep
    /\ rm.activeCorrelationId # NULL_VALUE
    /\ poller'.pollComplete
    /\ poller'.controlSessionId = ControlSessionId
    /\ poller'.correlationId = rm.activeCorrelationId
    /\ ~isCodeError(poller')

\* The step has offered the request op under a new correlation id; when the
\* offer was accepted the id is the active one, when it threw the merge failed.
Offered(op) ==
    /\ nextCorrelationId' = nextCorrelationId + 1
    /\ \/ /\ sent' = Append(sent, [op |-> op, correlationId |-> nextCorrelationId,
                                   controlSessionId |-> ControlSessionId])
          /\ rm'.activeCorrelationId = nextCorrelationId
          /\ rm'.state = rm.state
       \/ /\ sent' = sent
          /\ rm'.activeCorrelationId = rm.activeCorrelationId
          /\ rm'.state \in {rm.state, "FAILED"}

(***************************************************************************)
(* C27: in AWAIT_INITIAL_RECORDING_POSITION a step with no active          *)
(* correlation id offers getRecordingPosition; a step that polls a         *)
(* NULL_POSITION reply offers getStopPosition and does not advance, nor    *)
(* touch initialMaxPosition; AWAIT_REPLAY is entered only by a step that   *)
(* polls a non-null reply, with nextTargetPosition and initialMaxPosition  *)
(* that reply and activeCorrelationId cleared; hence in AWAIT_REPLAY       *)
(* nextTargetPosition = initialMaxPosition and neither is NULL_POSITION.   *)
(***************************************************************************)
C27_InitialPosition ==
    [][LET initial == rm.state = "AWAIT_INITIAL_RECORDING_POSITION" /\ WorkStep
           reply == poller'.relevantId
       IN
       /\ initial /\ rm.activeCorrelationId = NULL_VALUE =>
              /\ Offered("getRecordingPosition")
              /\ poller' = poller /\ stream' = stream
       /\ initial /\ PolledResponse /\ reply = NULL_POSITION =>
              /\ Offered("getStopPosition")
              /\ rm'.initialMaxPosition = rm.initialMaxPosition
       /\ rm.state # "AWAIT_REPLAY" /\ rm'.state = "AWAIT_REPLAY" =>
              /\ initial /\ PolledResponse /\ reply # NULL_POSITION
              /\ rm'.nextTargetPosition = reply
              /\ rm'.initialMaxPosition = reply
              /\ rm'.activeCorrelationId = NULL_VALUE
              /\ sent' = sent
       /\ rm'.state = "AWAIT_REPLAY" =>
              /\ rm'.nextTargetPosition = rm'.initialMaxPosition
              /\ rm'.initialMaxPosition # NULL_POSITION]_vars

\* AWAIT_REPLAY entered with the stop position, after the recording position
\* came back as NULL_POSITION.
C27_Witness ==
    /\ rm.state = "AWAIT_REPLAY"
    /\ rm.nextTargetPosition = rm.initialMaxPosition
    /\ rm.initialMaxPosition # NULL_POSITION
    /\ \E i \in 1..Len(sent) :
           sent[i].op = "getStopPosition" /\ sent[i].correlationId \in answered

(***************************************************************************)
(* C28: replaySessionId is stored, isReplayActive set and AWAIT_CATCH_UP   *)
(* entered from AWAIT_REPLAY only by a step that polls a ControlResponse   *)
(* of the session for the active correlation id whose code is OK; a        *)
(* response with any other code starts no catch-up.                        *)
(***************************************************************************)
C28_CatchUpOnOkOnly ==
    [][rm.state = "AWAIT_REPLAY"
       /\ \/ rm'.state = "AWAIT_CATCH_UP"
          \/ rm'.isReplayActive # rm.isReplayActive
          \/ rm'.replaySessionId # rm.replaySessionId
       => /\ PolledResponse
          /\ isCodeOk(poller')
          /\ rm'.state = "AWAIT_CATCH_UP"
          /\ rm'.isReplayActive
          /\ rm'.replaySessionId = poller'.relevantId]_vars

(***************************************************************************)
(* C29: addDestination(m_liveDestination) is called at most once over a    *)
(* run: it is called only while isLiveAdded is false, by a step of         *)
(* AWAIT_CURRENT_RECORDING_POSITION that sets isLiveAdded and returns to   *)
(* AWAIT_CATCH_UP, and isLiveAdded stays true afterwards.                  *)
(***************************************************************************)
C29_LiveAddedOnce ==
    [][/\ liveCalls' # liveCalls =>
              /\ liveCalls' = liveCalls + 1
              /\ ~rm.isLiveAdded
              /\ rm'.isLiveAdded
              /\ rm.state = "AWAIT_CURRENT_RECORDING_POSITION" /\ PolledResponse
              /\ rm'.state = "AWAIT_CATCH_UP"
              /\ "liveDestination" \in destinations'
       /\ rm.isLiveAdded => rm'.isLiveAdded
       /\ liveCalls' <= 1
       /\ rm'.isLiveAdded <=> liveCalls' = 1
       /\ rm'.isLiveAdded <=> "liveDestination" \in destinations']_vars

\* With the live destination added, a later recording position has been
\* polled and has moved the merge on to stopping the replay.
C29_Witness ==
    /\ rm.state = "AWAIT_STOP_REPLAY"
    /\ rm.isLiveAdded
    /\ liveCalls = 1
    /\ Cardinality({i \in 1..Len(sent) : sent[i].op = "getRecordingPosition"}) >= 3

\* The step has had the poller read the response stream.
Observes == poller' # poller \/ Len(stream') < Len(stream)

\* The step has had the proxy offer a request.
Sends == nextCorrelationId' # nextCorrelationId

(***************************************************************************)
(* C30: a doWork call of ReplayMerge makes the proxy offer one request or  *)
(* the poller read the response stream once, never both.                   *)
(***************************************************************************)
C30_SendOrObserve ==
    [][WorkStep =>
           /\ ~(Sends /\ Observes)
           /\ Sends => nextCorrelationId' = nextCorrelationId + 1
           /\ Len(sent') <= Len(sent) + 1]_vars

(***************************************************************************)
(* C31: with every request accepted in the end and answered OK, with a     *)
(* position in the end, and the replay image advancing, the work steps     *)
(* bring ReplayMerge to MERGED, whatever offers were back-pressured and    *)
(* whatever NULL_POSITION replies came on the way.  Stated for the runs    *)
(* that stay within MaxMergeRequests correlation ids.                      *)
(***************************************************************************)
C31_EventuallyMerged ==
    <>(rm.state = "MERGED" \/ nextCorrelationId > MaxMergeRequests)

(***************************************************************************)
(* Descriptors that are not of the listing.                                *)
(***************************************************************************)
\* The latest fragment is a descriptor of the template its poller lists, read
\* after the poller was reset for a listing.
DescriptorFragment ==
    /\ fragment.ran
    /\ fragment.poller \in DescriptorPollers
    /\ fragment.before.correlationId # NULL_VALUE
    /\ fragment.msg.schemaId = sbeSchemaId
    /\ \/ /\ fragment.poller = "RecordingDescriptorPoller"
          /\ fragment.msg.templateId = "RecordingDescriptor"
       \/ /\ fragment.poller = "RecordingSubscriptionDescriptorPoller"
          /\ fragment.msg.templateId = "RecordingSubscriptionDescriptor"

\* Its controlSessionId and correlationId are those of the poller.
FragmentMatches ==
    /\ fragment.msg.controlSessionId = ControlSessionId
    /\ fragment.msg.correlationId = fragment.before.correlationId

(***************************************************************************)
(* C32: a descriptor whose controlSessionId or correlationId is not the    *)
(* poller's is ignored: no consumer call, remaining count and              *)
(* isDispatchComplete as before; the consumer is called for the            *)
(* descriptors that match both, and for no other.                          *)
(***************************************************************************)
C32_ForeignDescriptorIgnored ==
    DescriptorFragment =>
        IF FragmentMatches
        THEN fragment.consumed = <<fragment.msg>>
        ELSE /\ fragment.consumed = <<>>
             /\ fragment.after.remainingRecordCount = fragment.before.remainingRecordCount
             /\ fragment.after.isDispatchComplete = fragment.before.isDispatchComplete

(***************************************************************************)
(* One ControlResponse a poll.                                             *)
(***************************************************************************)
\* A ControlResponse the poller can decode.
IsResponse(msg) == msg.schemaId = sbeSchemaId /\ msg.templateId = "ControlResponse"

\* The poller holds the fields of msg.
Holds(p, msg) ==
    /\ p.controlSessionId = msg.controlSessionId
    /\ p.correlationId = msg.correlationId
    /\ p.relevantId = msg.relevantId
    /\ p.code = msg.code
    /\ p.errorMessage = msg.errorMessage

(***************************************************************************)
(* C33: a poll takes the messages off the head of the subscription in      *)
(* arrival order and leaves the others as they are; it takes at most one   *)
(* ControlResponse, which is the first one on the subscription and the     *)
(* last message it takes, and it is complete exactly when it took one,     *)
(* holding its fields; messages of other templates before it are taken     *)
(* without completing the poll.  So the responses come one per poll in     *)
(* arrival order, none lost and none twice.                                *)
(***************************************************************************)
C33_OneResponsePerPoll ==
    [][pollLog' # pollLog =>
           LET taken == pollLog'.consumed
               n == Len(taken)
               responses == {i \in 1..n : IsResponse(taken[i])}
           IN
           /\ n <= Len(stream)
           /\ taken = SubSeq(stream, 1, n)
           /\ stream' = SubSeq(stream, n + 1, Len(stream))
           /\ responses \subseteq {n}
           /\ poller'.pollComplete <=> responses # {}
           /\ poller'.pollComplete => Holds(poller', taken[n])
           /\ (~poller'.pollComplete /\ pollLog'.exception = NoException) =>
                  stream' = <<>> \/ n = FRAGMENT_LIMIT]_vars

\* Two responses were on the subscription: the latest poll has returned the
\* first, and the second is still there.
C33_Witness ==
    /\ pollLog.ran
    /\ poller.pollComplete
    /\ poller.correlationId = 1
    /\ Len(stream) = 1
    /\ IsResponse(stream[1])
    /\ stream[1].correlationId = 2

(***************************************************************************)
(* The order of the tests of a wait.                                       *)
(***************************************************************************)
\* The step is one pass of the loop of a wait: a poll and the tests after it.
WaitStep ==
    /\ Waiting
    /\ serverSent' = serverSent
    /\ now' = now
    /\ connected' = connected

NotConnected ==
    ArchiveException(<<"subscription to archive is not connected">>, GENERIC)

(***************************************************************************)
(* C34: in a wait for a response or for descriptors, a poll that reads no  *)
(* fragments while the response subscription is not connected raises the   *)
(* ArchiveException at once, whatever the clock says; after a poll that    *)
(* read fragments neither that exception nor the timeout is raised.        *)
(***************************************************************************)
C34_ConnectivityBeforeDeadline ==
    [][WaitStep =>
           /\ (stream = <<>> /\ ~connected) =>
                  /\ call'.pc = "thrown"
                  /\ call'.exception = NotConnected
           /\ Len(stream') < Len(stream) =>
                  /\ call'.exception # NotConnected
                  /\ call'.exception.type # "TimeoutException"]_vars

\* A wait for descriptors that found the subscription not connected after its
\* deadline had passed.
C34_Witness ==
    /\ call.op \in ListOps
    /\ call.pc = "thrown"
    /\ call.exception = NotConnected
    /\ call.endTs > call.deadlineTs

\* The allocated recording position counters of the registry whose key holds
\* the id in the given field.
RecordingPosCounters(field, id) ==
    {i \in CounterIds : /\ counters[i + 1].state = RECORD_ALLOCATED
                        /\ counters[i + 1].typeId = RECORDING_POSITION_TYPE_ID
                        /\ counters[i + 1][field] = id}

LowestOf(ids) ==
    IF ids = {} THEN NULL_COUNTER_ID ELSE CHOOSE i \in ids : \A j \in ids : i <= j

\* C35: findCounterIdByRecording (findCounterIdBySession) returns the lowest id
\* among all the allocated counters of type id 100 whose recording id (session
\* id) is the argument, and NULL_COUNTER_ID exactly when there is none;
\* getRecordingId gives a recording id, and isActive answers true, only for an
\* allocated counter of type id 100.
C35_LowestMatchingCounter ==
    /\ lookup.op = "findCounterIdByRecording"
          => lookup.result = LowestOf(RecordingPosCounters("recordingId", lookup.arg))
    /\ lookup.op = "findCounterIdBySession"
          => lookup.result = LowestOf(RecordingPosCounters("sessionId", lookup.arg))
    /\ lookup.op = "getRecordingId" /\ lookup.result # NULL_RECORDING_ID
          => /\ counters[lookup.counterId + 1].state = RECORD_ALLOCATED
             /\ counters[lookup.counterId + 1].typeId = RECORDING_POSITION_TYPE_ID
             /\ lookup.result = counters[lookup.counterId + 1].recordingId
    /\ lookup.op = "isActive" /\ lookup.active
          => lookup.counterId \in RecordingPosCounters("recordingId", lookup.arg)

\* A lookup by recording id that passed over a reclaimed record of the same
\* type id and recording id, found the counter in the last record, and a
\* counter of another type id holds the recording id too.
C35_Witness ==
    /\ lookup.op = "findCounterIdByRecording"
    /\ lookup.result = NumCounters - 1
    /\ counters[1].state = RECORD_RECLAIMED
    /\ counters[1].typeId = RECORDING_POSITION_TYPE_ID
    /\ counters[1].recordingId = lookup.arg
    /\ counters[2].state = RECORD_ALLOCATED
    /\ counters[2].typeId # RECORDING_POSITION_TYPE_ID
    /\ counters[2].recordingId = lookup.arg


\* A poll of a synchronous call, of pollForErrorResponse or of
\* checkForErrorResponse.
OtherPoll == PollForResponse \/ PollForErrorResponse \/ CheckForErrorResponse

\* C36: with ReplayMerge steps interleaved on one thread with synchronous
\* calls, pollForErrorResponse and checkForErrorResponse of the session, a
\* poll of those operations never consumes the response to a request
\* ReplayMerge has in flight.
C36_ResponseLeftToReplayMerge ==
    [][OtherPoll => \A i \in 1..Len(polled') :
                       ~(IsResponse(polled'[i]) /\ polled'[i].correlationId \in inFlight)]_vars


\* A stopReplay request has been sent.
StopReplaySent == \E i \in 1..Len(sent) : sent[i].op = "stopReplay"

ConnectOffered(result, code) ==
    /\ AsyncConnectPoll(result, code)
    /\ AsyncConnect_poll_publication(
           AsyncConnect_poll_subscription(ac, driver, code), driver, result).offered

\* C39: over the polls of AsyncConnect at most one correlation id is
\* allocated and the connect request is accepted at most once; it is offered
\* only with the publication found and connected, with the correlation id
\* allocated first and kept for the retries, never once accepted; and the
\* response poller reads only once the request is accepted.
C39_OneConnectRequest ==
    /\ [](/\ acLog.accepted <= 1
          /\ driver.nextCorrelationId \in {1, 2}
          /\ ac.correlationId \in {NULL_VALUE, 1}
          /\ ac.archiveProxyReady => acLog.accepted = 1 /\ ac.correlationId # NULL_VALUE
          /\ acLog.consumed # <<>> => ac.archiveProxyReady
          /\ ac.poller # NewPoller("OK") /\ ac.poller.pollComplete => ac.archiveProxyReady)
    /\ [][\A result \in {"POSITION", "BACK_PRESSURED", "NOT_CONNECTED"},
             code \in ResponseCodes :
               ConnectOffered(result, code) =>
                   /\ driver.pub = "connected"
                   /\ ~ac.archiveProxyReady
                   /\ ac'.publication
                   /\ ac'.correlationId = 1
                   /\ ac.correlationId # NULL_VALUE => ac'.correlationId = ac.correlationId
                   /\ ac'.archiveProxyReady = (result = "POSITION")]_vars

\* The connect request has been offered and rejected: the correlation id is
\* allocated, the poller is ready and a message waits, unread, for the retry.
C39_Witness ==
    /\ ac.correlationId = 1
    /\ ~ac.archiveProxyReady
    /\ ac.controlResponsePollerReady
    /\ acStream # <<>>
    /\ acLog.ret = "false"
    /\ acLog.consumed = <<>>


\* C40: the delegate is called at most once per fragment and only with a
\* whole message: with the payload of an unfragmented frame, or, at the END
\* fragment of a session with a run pending since its latest BEGIN, with the
\* payload of the fragments of that run in order, whatever the other session
\* delivered in between; a BEGIN or MIDDLE fragment, and a MIDDLE or END
\* fragment with no run pending, gives no call.
C40_WholeMessagesOnly ==
    faLog.ran =>
        LET frame == faLog.frame IN
        CASE UNFRAGMENTED \subseteq frame.flags -> faLog.calls = <<frame.payload>>
          [] BEGIN_FRAG \in frame.flags /\ END_FRAG \notin frame.flags ->
                 /\ faLog.calls = <<>>
                 /\ fa.builderBySessionIdMap[frame.sessionId].data = frame.payload
          [] frame.flags = {END_FRAG} ->
                 faLog.calls = IF faLog.pending = <<>> THEN <<>>
                               ELSE <<faLog.pending \o frame.payload>>
          [] OTHER -> faLog.calls = <<>>

\* A message of three fragments handed to the delegate at its END fragment
\* while the other session is in the middle of a message.
C40_Witness ==
    /\ faLog.ran
    /\ faLog.frame.flags = {END_FRAG}
    /\ Len(faLog.pending) = 2
    /\ Len(faLog.calls) = 1
    /\ \E sessionId \in FrameSessionIds \ {faLog.frame.sessionId} : Len(runs[sessionId]) = 2


====
